---- MODULE Spec2Model ----
(***************************************************************************)
(* Verification model of the civil-works procurement pipeline:             *)
(*   - src/ingest/contracts_finder.py : paginated, resumable ingestion     *)
(*   - src/clean_data.py              : buyer-name canonicalization        *)
(*   - src/pqe_engine.py              : carbon-risk estimation             *)
(*                                                                         *)
(* Text is modelled as a sequence of one-character strings so that         *)
(* strip/lower/upper/split/substring are computed, not assumed.  JSON and  *)
(* data-frame cells are tagged records [k |-> kind, v |-> value].          *)
(***************************************************************************)
EXTENDS Integers, Sequences, FiniteSets, TLC

VARIABLES
    \* ---- ingestion (contracts_finder.py) ----
    cursor_file,    \* CURSOR_FILE on disk: NoFile or File(text)
    output_file,    \* OUTPUT_FILE on disk: NoFile or File(rows)
    pc,             \* START | FETCHING | DONE | STOPPED | ABORTED
    end_reason,     \* why the loop was left
    all_contracts,  \* list of accepted records of the current run
    seen_ocids,     \* set of identifiers accepted in the current run
    next_url,       \* local next_url (JNone or a url)
    first_page,     \* local first_page
    page_count,     \* local page_count
    attempt,        \* failed attempts of the safe_get call in progress
    run,            \* number of runs started
    requests,       \* history: requests.get calls issued by the current run
    last_request,   \* history: the last requests.get call (url, params, page)
    last_link,      \* history: last "next" link carried by a processed page
    resumed,        \* history: the current run started from a persisted cursor
    repeat_dropped, \* history: the current run skipped an identifier it had stored
    prev_run,       \* history: how the previous run ended (state, reason)
    start_output,   \* history: OUTPUT_FILE as the current run found it
    last_response,  \* history: what the last requests.get attempt returned
    cursor_reads,   \* history: calls of load_last_cursor by the current run
    cursor_writes,  \* history: calls of save_last_cursor by the current run
    \* ---- canonicalizer (clean_data.py) ----
    names,          \* the buyer_name column given to build_canonical_map
    buyer_map,      \* the frame build_canonical_map returned (NoFrame before)
    prev_map,       \* history: the frame the previous call returned
    \* ---- risk engine (pqe_engine.py) ----
    contracts,      \* rows of the contract frame read at line 63
    materials,      \* rows of the material reference frame read at line 64
    results,        \* the list `results` of the loop at line 70
    out_frame,      \* the frame written at line 144 (NoFrame before)
    mats            \* history: what detect_material returned for each row

ingest_vars == <<cursor_file, output_file, pc, end_reason, all_contracts,
                 seen_ocids, next_url, first_page, page_count, attempt, run,
                 requests, last_request, last_link, resumed, repeat_dropped,
                 prev_run, start_output, last_response, cursor_reads,
                 cursor_writes>>

canon_vars == <<names, buyer_map, prev_map>>

pqe_vars == <<contracts, materials, results, out_frame, mats>>

vars == <<ingest_vars, canon_vars, pqe_vars>>

(***************************************************************************)
(* Bounds of the model                                                     *)
(***************************************************************************)
MaxRuns == 2        \* ingestion runs per behaviour
MaxPages == 2       \* pages the remote listing serves to one run
MaxNames == 3       \* rows of the buyer_name column
MaxMaterials == 2   \* rows of the material reference table

(***************************************************************************)
(* Tagged values                                                           *)
(***************************************************************************)
JNone == [k |-> "none"]
JAbsent == [k |-> "absent"]                 \* key not present in a dict
JStr(s) == [k |-> "str", v |-> s]           \* opaque text (TLA+ string)
JChars(s) == [k |-> "chars", v |-> s]       \* text as a character sequence
JNum(n) == [k |-> "num", v |-> n]
JDict(d) == [k |-> "dict", v |-> d]
JList(l) == [k |-> "list", v |-> l]

NoFile == [k |-> "nofile"]
File(content) == [k |-> "file", v |-> content]

\* dict.get(key) with default None
Get(x) == IF x.k = "absent" THEN JNone ELSE x

\* Python truthiness of the values used here
Truthy(x) ==
    CASE x.k = "none" -> FALSE
      [] x.k = "absent" -> FALSE
      [] x.k = "str" -> x.v # ""
      [] x.k = "chars" -> x.v # <<>>
      [] x.k = "num" -> x.v # 0
      [] x.k = "list" -> x.v # <<>>
      [] x.k = "dict" -> \E f \in DOMAIN x.v : x.v[f].k # "absent"
      [] OTHER -> TRUE

(***************************************************************************)
(* Text helpers                                                            *)
(***************************************************************************)
\* A text is a sequence of characters.  A printable character up to U+00FF is
\* written as itself, the tab, line feed, form feed and carriage return as
\* "\t", "\n", "\f", "\r".  Every other character (the other controls, the
\* no-break space, the soft hyphen, the grave accent, which a TLA+ string
\* cannot hold, and all above U+00FF) is written as the name of its code
\* point: "U+" and its hexadecimal digits, four at least ("U+2003").
Latin1 == <<
    "U+0000", "U+0001", "U+0002", "U+0003", "U+0004", "U+0005", "U+0006", "U+0007", "U+0008", "\t", "\n", "U+000B", "\f", "\r", "U+000E", "U+000F",
    "U+0010", "U+0011", "U+0012", "U+0013", "U+0014", "U+0015", "U+0016", "U+0017", "U+0018", "U+0019", "U+001A", "U+001B", "U+001C", "U+001D", "U+001E", "U+001F",
    " ", "!", "\"", "#", "$", "%", "&", "'", "(", ")", "*", "+", ",", "-", ".", "/",
    "0", "1", "2", "3", "4", "5", "6", "7", "8", "9", ":", ";", "<", "=", ">", "?",
    "@", "A", "B", "C", "D", "E", "F", "G", "H", "I", "J", "K", "L", "M", "N", "O",
    "P", "Q", "R", "S", "T", "U", "V", "W", "X", "Y", "Z", "[", "\\", "]", "^", "_",
    "U+0060", "a", "b", "c", "d", "e", "f", "g", "h", "i", "j", "k", "l", "m", "n", "o",
    "p", "q", "r", "s", "t", "u", "v", "w", "x", "y", "z", "{", "|", "}", "~", "U+007F",
    "U+0080", "U+0081", "U+0082", "U+0083", "U+0084", "U+0085", "U+0086", "U+0087", "U+0088", "U+0089", "U+008A", "U+008B", "U+008C", "U+008D", "U+008E", "U+008F",
    "U+0090", "U+0091", "U+0092", "U+0093", "U+0094", "U+0095", "U+0096", "U+0097", "U+0098", "U+0099", "U+009A", "U+009B", "U+009C", "U+009D", "U+009E", "U+009F",
    "U+00A0", "¡", "¢", "£", "¤", "¥", "¦", "§", "¨", "©", "ª", "«", "¬", "U+00AD", "®", "¯",
    "°", "±", "²", "³", "´", "µ", "¶", "·", "¸", "¹", "º", "»", "¼", "½", "¾", "¿",
    "À", "Á", "Â", "Ã", "Ä", "Å", "Æ", "Ç", "È", "É", "Ê", "Ë", "Ì", "Í", "Î", "Ï",
    "Ð", "Ñ", "Ò", "Ó", "Ô", "Õ", "Ö", "×", "Ø", "Ù", "Ú", "Û", "Ü", "Ý", "Þ", "ß",
    "à", "á", "â", "ã", "ä", "å", "æ", "ç", "è", "é", "ê", "ë", "ì", "í", "î", "ï",
    "ð", "ñ", "ò", "ó", "ô", "õ", "ö", "÷", "ø", "ù", "ú", "û", "ü", "ý", "þ", "ÿ">>
Latin1Code ==
    [c \in {Latin1[i] : i \in 1..256} |-> (CHOOSE i \in 1..256 : Latin1[i] = c) - 1]

HexDigits == <<"0", "1", "2", "3", "4", "5", "6", "7", "8", "9", "A", "B", "C", "D", "E", "F">>
HexVal(h) == (CHOOSE i \in 1..16 : HexDigits[i] = h) - 1
RECURSIVE HexNat(_, _)
HexNat(name, acc) ==
    IF name = "" THEN acc ELSE HexNat(Tail(name), 16 * acc + HexVal(Head(name)))
RECURSIVE HexName(_, _)
HexName(n, width) ==
    IF n = 0 /\ width <= 0 THEN ""
    ELSE HexName(n \div 16, width - 1) \o HexDigits[(n % 16) + 1]

\* ord(c) and chr(n)
ord(c) == IF Len(c) = 1 THEN Latin1Code[c] ELSE HexNat(SubSeq(c, 3, Len(c)), 0)
chr(n) == IF n < 256 THEN Latin1[n + 1] ELSE "U+" \o HexName(n, 4)

\* membership of a code point in a table of ranges <<first, last>>
\* a table of code points is written flat; its entries are the consecutive
\* pairs <<first, last>> or quadruples <<first, last, step, delta>>
Pairs(t) == {<<t[2 * i - 1], t[2 * i]>> : i \in 1..(Len(t) \div 2)}
Quads(t) ==
    {<<t[4 * i - 3], t[4 * i - 2], t[4 * i - 1], t[4 * i]>> : i \in 1..(Len(t) \div 4)}
InRanges(n, ranges) == \E r \in ranges : r[1] <= n /\ n <= r[2]
CharsOf(ranges) == {chr(n) : n \in UNION {r[1]..r[2] : r \in ranges}}

\* str.isspace(): what str.strip(), str.split() and the pattern \s treat as
\* blank (the controls 09-0D and 1C-1F, the space, 85, A0 and the Unicode
\* separators)
SpaceRanges == Pairs(<<
    9, 13,  28, 32,  133, 133,  160, 160,  5760, 5760,  8192, 8202,  8232, 8233,  8239, 8239,
    8287, 8287,  12288, 12288>>)
Whitespace == CharsOf(SpaceRanges)

\* the decimal digits (category Nd): what the pattern \d matches and float()
\* reads.  Each range holds whole runs of ten digits in the order 0..9.
DecimalRanges == Pairs(<<
    48, 57,  1632, 1641,  1776, 1785,  1984, 1993,  2406, 2415,  2534, 2543,  2662, 2671,
    2790, 2799,  2918, 2927,  3046, 3055,  3174, 3183,  3302, 3311,  3430, 3439,  3558, 3567,
    3664, 3673,  3792, 3801,  3872, 3881,  4160, 4169,  4240, 4249,  6112, 6121,  6160, 6169,
    6470, 6479,  6608, 6617,  6784, 6793,  6800, 6809,  6992, 7001,  7088, 7097,  7232, 7241,
    7248, 7257,  42528, 42537,  43216, 43225,  43264, 43273,  43472, 43481,  43504, 43513,
    43600, 43609,  44016, 44025,  65296, 65305,  66720, 66729,  68912, 68921,  69734, 69743,
    69872, 69881,  69942, 69951,  70096, 70105,  70384, 70393,  70736, 70745,  70864, 70873,
    71248, 71257,  71360, 71369,  71472, 71481,  71904, 71913,  72016, 72025,  72784, 72793,
    73040, 73049,  73120, 73129,  92768, 92777,  92864, 92873,  93008, 93017,  120782, 120831,
    123200, 123209,  123632, 123641,  125264, 125273,  130032, 130041>>)
DecimalDigits == CharsOf(DecimalRanges)
AsciiDigits == <<"0", "1", "2", "3", "4", "5", "6", "7", "8", "9">>

\* str.isdigit(): the decimal digits and the characters of numeric type
\* Digit (superscripts, subscripts, circled digits, ...)
DigitRanges == Pairs(<<
    48, 57,  178, 179,  185, 185,  1632, 1641,  1776, 1785,  1984, 1993,  2406, 2415,  2534, 2543,
    2662, 2671,  2790, 2799,  2918, 2927,  3046, 3055,  3174, 3183,  3302, 3311,  3430, 3439,
    3558, 3567,  3664, 3673,  3792, 3801,  3872, 3881,  4160, 4169,  4240, 4249,  4969, 4977,
    6112, 6121,  6160, 6169,  6470, 6479,  6608, 6618,  6784, 6793,  6800, 6809,  6992, 7001,
    7088, 7097,  7232, 7241,  7248, 7257,  8304, 8304,  8308, 8313,  8320, 8329,  9312, 9320,
    9332, 9340,  9352, 9360,  9450, 9450,  9461, 9469,  9471, 9471,  10102, 10110,  10112, 10120,
    10122, 10130,  42528, 42537,  43216, 43225,  43264, 43273,  43472, 43481,  43504, 43513,
    43600, 43609,  44016, 44025,  65296, 65305,  66720, 66729,  68160, 68163,  68912, 68921,
    69216, 69224,  69714, 69722,  69734, 69743,  69872, 69881,  69942, 69951,  70096, 70105,
    70384, 70393,  70736, 70745,  70864, 70873,  71248, 71257,  71360, 71369,  71472, 71481,
    71904, 71913,  72016, 72025,  72784, 72793,  73040, 73049,  73120, 73129,  92768, 92777,
    92864, 92873,  93008, 93017,  120782, 120831,  123200, 123209,  123632, 123641,  125264, 125273,
    127232, 127242,  130032, 130041>>)
Digits == CharsOf(DigitRanges)

RECURSIVE LStrip(_)
LStrip(s) == IF s # <<>> /\ Head(s) \in Whitespace THEN LStrip(Tail(s)) ELSE s

RECURSIVE RStrip(_)
RStrip(s) ==
    IF s # <<>> /\ s[Len(s)] \in Whitespace
    THEN RStrip(SubSeq(s, 1, Len(s) - 1))
    ELSE s

\* str.strip()
Strip(s) == RStrip(LStrip(s))

\* str.startswith(prefix)
StartsWith(s, prefix) ==
    Len(prefix) <= Len(s) /\ SubSeq(s, 1, Len(prefix)) = prefix

\* str(n) for a natural number n
RECURSIVE NatDigits(_)
NatDigits(n) ==
    IF n < 10 THEN <<AsciiDigits[n + 1]>>
    ELSE NatDigits(n \div 10) \o <<AsciiDigits[(n % 10) + 1]>>

\* the characters of a text for which c.isdigit() holds
RECURSIVE KeepDigits(_)
KeepDigits(s) ==
    IF s = <<>> THEN <<>>
    ELSE IF Head(s) \in Digits THEN <<Head(s)>> \o KeepDigits(Tail(s))
    ELSE KeepDigits(Tail(s))

(***************************************************************************)
(* contracts_finder.py : configuration                                     *)
(***************************************************************************)
API_URL == <<"h", "t", "t", "p", "s", ":", "/", "/", "w", "w", "w", ".", "c", "o", "n", "t", "r", "a", "c", "t", "s", "f", "i", "n", "d", "e", "r", ".", "s", "e", "r", "v", "i", "c", "e", ".", "g", "o", "v", ".", "u", "k", "/", "P", "u", "b", "l", "i", "s", "h", "e", "d", "/", "N", "o", "t", "i", "c", "e", "s", "/", "O", "C", "D", "S", "/", "S", "e", "a", "r", "c", "h">>
START_DATE == "2025-01-01"
END_DATE == "2025-12-31"
PAGE_LIMIT == 100
MAX_RETRIES == 5
CIVIL_WORKS_CPVS == {<<"4", "5">>, <<"7", "1">>}
UNKNOWN == <<"U", "N", "K", "N", "O", "W", "N">>

\* params of the first query, and "params=None"
InitialParams == [k |-> "params", limit |-> PAGE_LIMIT,
                  publishedFrom |-> START_DATE, publishedTo |-> END_DATE]
NoParams == [k |-> "none"]

(***************************************************************************)
(* contracts_finder.py : helpers                                           *)
(***************************************************************************)
\* str(raw) of a classification id: a text, or a natural number
StrOfId(raw) == IF raw.k = "num" THEN NatDigits(raw.v) ELSE raw.v

\* normalize_cpv(raw): digits of str(raw), or "UNKNOWN"
normalize_cpv(raw) ==
    IF ~Truthy(raw) THEN UNKNOWN
    ELSE IF KeepDigits(StrOfId(raw)) # <<>> THEN KeepDigits(StrOfId(raw))
    ELSE UNKNOWN

\* first dict of a classification list that has a truthy id
RECURSIVE FirstListCpv(_, _)
FirstListCpv(l, i) ==
    IF i > Len(l) THEN JNone
    ELSE IF l[i].k = "dict" /\ Truthy(Get(l[i].v.id))
         THEN JChars(normalize_cpv(Get(l[i].v.id)))
         ELSE FirstListCpv(l, i + 1)

\* extract_cpv(tender, release); tender and release are tagged values,
\* release is a dict
extract_cpv(tender, release) ==
    LET classification ==
            IF Truthy(tender) THEN Get(tender.v.classification) ELSE JNone
        fromList ==
            IF classification.k = "list"
            THEN FirstListCpv(classification.v, 1) ELSE JNone
        rel == Get(release.v.classification)
    IN  IF classification.k = "dict"
        THEN normalize_cpv(Get(classification.v.id))
        ELSE IF fromList.k = "chars" THEN fromList.v
        ELSE IF rel.k = "dict" THEN normalize_cpv(Get(rel.v.id))
        ELSE UNKNOWN

\* value of one candidate object, JNone when it carries no structured amount
ValueOf(obj) ==
    IF ~Truthy(obj) THEN JNone
    ELSE LET value == Get(obj.v.value) IN
         IF value.k = "dict" /\ Get(value.v.amount).k # "none"
         THEN JDict([amount |-> value.v.amount,
                     currency |-> IF value.v.currency.k = "absent"
                                  THEN JStr("GBP") ELSE value.v.currency])
         ELSE JNone

\* extract_value(tender, release) -> [amount, currency]
extract_value(tender, release) ==
    IF ValueOf(tender).k = "dict" THEN ValueOf(tender).v
    ELSE IF ValueOf(release).k = "dict" THEN ValueOf(release).v
    ELSE [amount |-> JNum(0), currency |-> JStr("GBP")]

\* f.read() of a file opened in text mode: a carriage return, with the line
\* feed that follows it if there is one, is read as a line feed
RECURSIVE UniversalNewlines(_)
UniversalNewlines(s) ==
    IF s = <<>> THEN <<>>
    ELSE IF Head(s) # "\r" THEN <<Head(s)>> \o UniversalNewlines(Tail(s))
    ELSE IF Len(s) > 1 /\ s[2] = "\n"
         THEN <<"\n">> \o UniversalNewlines(SubSeq(s, 3, Len(s)))
    ELSE <<"\n">> \o UniversalNewlines(Tail(s))

\* load_last_cursor(): the content of the file as read in text mode,
\* stripped, or None.  The content of a file is its text as UTF-8.
load_last_cursor(file) ==
    IF file.k = "file" THEN JChars(Strip(UniversalNewlines(file.v))) ELSE JNone

\* the characters of a text value
TextOf(x) ==
    IF x.k = "chars" THEN x.v ELSE [i \in 1..Len(x.v) |-> SubSeq(x.v, i, i)]

\* f.write(cursor_url) raises: TypeError for a value that is no text,
\* UnicodeEncodeError for a text with a surrogate code point
WriteRaises(cursor_url) ==
    \/ cursor_url.k \notin {"chars", "str"}
    \/ /\ cursor_url.k = "chars"
       /\ \E i \in 1..Len(cursor_url.v) :
             /\ Len(cursor_url.v[i]) > 1
             /\ ord(cursor_url.v[i]) \in 55296..57343

\* mutant of save_last_cursor: the file is left as it was
save_last_cursor_NotWritten(cursor_url) == cursor_file

\* save_last_cursor: open(CURSOR_FILE, "w") empties the file, f.write then
\* stores the given url in it, or raises and leaves it empty
save_last_cursor(cursor_url) ==
    IF WriteRaises(cursor_url) THEN File(<<>>) ELSE File(TextOf(cursor_url))

(***************************************************************************)
(* contracts_finder.py : the per-release body of the ingestion loop        *)
(* (lines 136-174)                                                         *)
(***************************************************************************)
\* the {} of release.get("tender", {}) and of release.get("buyer") or {}
EmptyDict == JDict([classification |-> JAbsent, value |-> JAbsent,
                    title |-> JAbsent, description |-> JAbsent,
                    status |-> JAbsent])
EmptyBuyer == JDict([id |-> JAbsent, name |-> JAbsent])
EmptyAddress == JDict([countryName |-> JAbsent])

\* release.get("tender", {})
TenderOf(release) ==
    IF release.v.tender.k = "absent" THEN EmptyDict ELSE release.v.tender

\* release.get("buyer") or {}
BuyerOf(release) ==
    IF Truthy(release.v.buyer) THEN release.v.buyer ELSE EmptyBuyer

\* release.get("parties") or []
PartiesOf(release) ==
    IF Truthy(release.v.parties) THEN release.v.parties ELSE JList(<<>>)

\* (p.get("address") or {})
AddressOf(p) == IF Truthy(p.v.address) THEN p.v.address ELSE EmptyAddress

\* lines 155-158: the country of the last party whose id equals the buyer's
\* (two missing ids are equal), "GB" when there is none
RECURSIVE BuyerCountry(_, _, _, _)
BuyerCountry(parties, buyer, i, country) ==
    IF i > Len(parties) THEN country
    ELSE IF Get(parties[i].v.id) = Get(buyer.v.id)
         THEN BuyerCountry(parties, buyer, i + 1,
                           IF AddressOf(parties[i]).v.countryName.k = "absent"
                           THEN JStr("GB")
                           ELSE AddressOf(parties[i]).v.countryName)
         ELSE BuyerCountry(parties, buyer, i + 1, country)

\* (tender.get("description") or "")[:500]; an opaque text is shorter than
\* the cut
Description(tender) ==
    LET d == tender.v.description IN
    IF ~Truthy(d) THEN JChars(<<>>)
    ELSE IF d.k = "chars"
         THEN JChars(SubSeq(d.v, 1, IF Len(d.v) < 500 THEN Len(d.v) ELSE 500))
    ELSE IF d.k = "list"
         THEN JList(SubSeq(d.v, 1, IF Len(d.v) < 500 THEN Len(d.v) ELSE 500))
    ELSE d

\* the record appended to all_contracts for an accepted release
ContractRecord(release) ==
    LET tender == TenderOf(release)
        val == extract_value(tender, release)
        buyer == BuyerOf(release)
    IN  [ocid |-> release.v.ocid.v,
         title |-> IF tender.v.title.k = "absent"
                   THEN JStr("Unknown") ELSE tender.v.title,
         description |-> Description(tender),
         cpv_code |-> extract_cpv(tender, release),
         value_amount |-> val.amount,
         currency |-> val.currency,
         published_date |-> Get(release.v.date),
         buyer_name |-> IF buyer.v.name.k = "absent"
                        THEN JStr("Unknown") ELSE buyer.v.name,
         buyer_country |-> BuyerCountry(PartiesOf(release).v, buyer, 1, JStr("GB")),
         tender_status |-> Get(tender.v.status),
         source |-> "UK Contracts Finder"]

\* lines 150-172 raise on an accepted release: a method is called on a value
\* that has none
RecordRaises(release) ==
    LET tender == TenderOf(release)
        buyer == BuyerOf(release)
        parties == PartiesOf(release)
    IN  \/ tender.k # "dict"                            \* tender.get
        \/ buyer.k # "dict"                             \* buyer.get
        \/ parties.k # "list"                           \* iteration, p.get
        \/ /\ parties.k = "list"
           /\ \E i \in 1..Len(parties.v) :
                \/ parties.v[i].k # "dict"              \* p.get
                \/ /\ buyer.k = "dict"
                   /\ Get(parties.v[i].v.id) = Get(buyer.v.id)
                   /\ AddressOf(parties.v[i]).k # "dict"   \* (...).get
        \/ /\ tender.k = "dict"
           /\ Truthy(tender.v.description)
           /\ tender.v.description.k \notin {"chars", "str", "list"}  \* [:500]

\* lines 137-139 raise: release.get on a value that is no dict, or a lookup
\* of an unhashable identifier in the set
LookupRaises(release) ==
    \/ release.k # "dict"
    \/ /\ Truthy(Get(release.v.ocid))
       /\ release.v.ocid.k \in {"list", "dict"}

\* line 142 raises: extract_cpv calls tender.get on a truthy value that is
\* no dict
TenderRaises(release) ==
    Truthy(TenderOf(release)) /\ TenderOf(release).k # "dict"

\* mutant of ReleaseOutcome: the identifier is not looked up in seen_ocids
ReleaseOutcome_NoSeenCheck(release, seen) ==
    IF LookupRaises(release) THEN "raise"
    ELSE IF ~Truthy(Get(release.v.ocid)) THEN "skip"
    ELSE IF TenderRaises(release) THEN "raise"
    ELSE LET cpv == extract_cpv(TenderOf(release), release) IN
         IF cpv = UNKNOWN THEN "skip"
         ELSE IF ~\E prefix \in CIVIL_WORKS_CPVS : StartsWith(cpv, prefix)
         THEN "skip"
         ELSE IF RecordRaises(release) THEN "raise"
         ELSE "append"

\* what one pass of the loop body does with a release:
\* "raise" (an exception leaves the loop), "skip" or "repeat" (continue:
\* no identifier or filtered out, identifier already stored) or "append"
ReleaseOutcome(release, seen) ==
    IF LookupRaises(release) THEN "raise"
    ELSE IF ~Truthy(Get(release.v.ocid)) THEN "skip"
    ELSE IF release.v.ocid.v \in seen THEN "repeat"
    ELSE IF TenderRaises(release) THEN "raise"
    ELSE LET cpv == extract_cpv(TenderOf(release), release) IN
         IF cpv = UNKNOWN THEN "skip"
         ELSE IF ~\E prefix \in CIVIL_WORKS_CPVS : StartsWith(cpv, prefix)
         THEN "skip"
         ELSE IF RecordRaises(release) THEN "raise"
         ELSE "append"

\* the for-loop over one page's releases, from release i on; `dropped`
\* records whether a repeated identifier was skipped
RECURSIVE ProcessReleases(_, _, _, _, _)
ProcessReleases(releases, i, acc, seen, dropped) ==
    IF i > Len(releases)
    THEN [all_contracts |-> acc, seen_ocids |-> seen,
          raised |-> FALSE, dropped |-> dropped]
    ELSE LET out == ReleaseOutcome(releases[i], seen) IN
         IF out = "raise"
         THEN [all_contracts |-> acc, seen_ocids |-> seen,
               raised |-> TRUE, dropped |-> dropped]
         ELSE IF out = "skip"
         THEN ProcessReleases(releases, i + 1, acc, seen, dropped)
         ELSE IF out = "repeat"
         THEN ProcessReleases(releases, i + 1, acc, seen, TRUE)
         ELSE ProcessReleases(releases, i + 1,
                              Append(acc, ContractRecord(releases[i])),
                              seen \cup {releases[i].v.ocid.v}, dropped)

\* DataFrame.drop_duplicates(subset="ocid"): the first row of each ocid
RECURSIVE DropDuplicates(_)
DropDuplicates(rows) ==
    IF rows = <<>> THEN <<>>
    ELSE LET init == DropDuplicates(SubSeq(rows, 1, Len(rows) - 1))
             last == rows[Len(rows)]
         IN  IF \E j \in 1..Len(init) : init[j].ocid = last.ocid
             THEN init ELSE Append(init, last)

\* mutant of SaveOutput: the rows are added to those already in the file
SaveOutput_MergeOld(rows, old) ==
    IF rows # <<>>
    THEN File(DropDuplicates((IF old.k = "file" THEN old.v ELSE <<>>) \o rows))
    ELSE old

\* lines 192-201: the output is written only when records were accepted
SaveOutput(rows, old) ==
    IF rows # <<>> THEN File(DropDuplicates(rows)) ELSE old

(***************************************************************************)
(* The remote listing: notices, pages and responses the run may receive    *)
(***************************************************************************)
Cls(id) == JDict([id |-> id])
Val(amount, currency) == JDict([amount |-> amount, currency |-> currency])
Tender(classification, value, title) ==
    JDict([classification |-> classification, value |-> value, title |-> title,
           description |-> JAbsent, status |-> JAbsent])
Release(ocid, tender, classification, value) ==
    JDict([ocid |-> ocid, tender |-> tender,
           classification |-> classification, value |-> value,
           buyer |-> JAbsent, parties |-> JAbsent, date |-> JAbsent])
Buyer(id, name) == JDict([id |-> id, name |-> name])
Party(id, address) == JDict([id |-> id, address |-> address])
Address(countryName) == JDict([countryName |-> countryName])
\* a dict with one more key
With(d, key, val) == JDict([d.v EXCEPT ![key] = val])

\* notices the remote source may publish
RBridge ==      \* accepted: primary classification block "45210000-2"
    Release(JStr("ocds-1"),
            Tender(Cls(JChars(<<"4", "5", "2", "1", "0", "0", "0", "0", "-", "2">>)),
                   Val(JNum(9000), JStr("EUR")), JStr("Bridge")),
            JAbsent, JAbsent)
RBridgeAgain == \* accepted, same identifier as RBridge: classification list,
                \* value on the release without a currency
    Release(JStr("ocds-1"),
            Tender(JList(<<JStr("x"), Cls(JNone),
                           Cls(JChars(<<"7", "1", "3">>))>>),
                   JAbsent, JAbsent),
            JAbsent, Val(JNum(7), JAbsent))
RRoad ==        \* accepted: no tender block, top-level classification
    Release(JStr("ocds-2"), JAbsent, Cls(JChars(<<"4", "5">>)), JAbsent)
RCatering ==    \* rejected: code outside the accepted prefixes
    Release(JStr("ocds-3"),
            Tender(Cls(JChars(<<"9", "8", "0", "0", "0", "0", "0", "0">>)),
                   JAbsent, JStr("Catering")),
            JAbsent, JAbsent)
RNoDigits ==    \* rejected: the primary block has no digits, and the
                \* top-level block is then not consulted
    Release(JStr("ocds-3"),
            Tender(Cls(JChars(<<"-">>)), JAbsent, JAbsent),
            Cls(JChars(<<"4", "5">>)), JAbsent)
RNoId ==        \* no identifier
    Release(JNone, JAbsent, Cls(JChars(<<"4", "5">>)), JAbsent)
RNullTender ==  \* malformed: "tender" is null although the notice passes
    Release(JStr("ocds-4"), JNone, Cls(JChars(<<"7", "1">>)), JAbsent)
RBuyer ==       \* accepted: buyer, parties, date, description and status
    With(With(With(
        Release(JStr("ocds-5"),
                With(With(Tender(Cls(JNum(71)), JAbsent, JStr("Survey")),
                          "description", JStr("Topographic survey")),
                     "status", JStr("active")),
                JAbsent, JAbsent),
        "buyer", Buyer(JStr("b1"), JStr("DfT"))),
        "parties", JList(<<Party(JStr("b0"), Address(JStr("FR"))),
                           Party(JStr("b1"), Address(JStr("IE"))),
                           Party(JStr("b1"), JNone)>>)),
        "date", JStr("2025-03-01"))
RSuperscript == \* accepted: the id ends with a superscript two, which
                \* str.isdigit() takes for a digit
    Release(JStr("ocds-6"),
            Tender(Cls(JChars(<<"4", "5", "²">>)), JAbsent, JAbsent),
            JAbsent, JAbsent)
RBadBuyer ==    \* malformed: the buyer is a text
    With(Release(JStr("ocds-7"), Tender(Cls(JChars(<<"4", "5">>)), JAbsent, JAbsent),
                 JAbsent, JAbsent),
         "buyer", JStr("DfT"))
RBadParties ==  \* malformed: a party is a text
    With(Release(JStr("ocds-8"), Tender(Cls(JChars(<<"4", "5">>)), JAbsent, JAbsent),
                 JAbsent, JAbsent),
         "parties", JList(<<JStr("x")>>))
RNumDescription == \* malformed: the description is a number
    Release(JStr("ocds-9"),
            With(Tender(Cls(JChars(<<"4", "5">>)), JAbsent, JAbsent),
                 "description", JNum(7)),
            JAbsent, JAbsent)

\* the "releases" lists a page may carry
ReleaseLists == {
    <<>>,
    <<RBridge, RBridgeAgain>>,
    <<RBridgeAgain, RRoad>>,
    <<RCatering, RNoId, RNoDigits>>,
    <<RRoad, RBuyer, RSuperscript, RBadParties, RBadBuyer, RNumDescription,
      RNullTender, RBridge>>
}

\* "next" links the remote source may hand out; the second one holds a
\* carriage return
LinkA == <<"p", "2">>
LinkB == <<"p", "\r", "3">>
Links == {LinkA, LinkB}

\* a decoded payload {"releases": ..., "links": ...}
Page(releases, links) == JDict([releases |-> releases, links |-> links])
LinksTo(next) == JDict([next |-> next])

\* well-formed payloads: each list of notices as the last page and as a
\* page that links to LinkA, and one page that links to LinkB
Pages ==
    {Page(JList(l), links) :
        l \in ReleaseLists, links \in {JAbsent, LinksTo(JChars(LinkA))}}
    \cup {Page(JList(<<RBridge, RBridgeAgain>>), LinksTo(JChars(LinkB)))}

\* malformed payloads: the next link is a number, "links" is a text,
\* "releases" is a text, the payload is a list
MalformedPages == {
    Page(JList(<<RBridgeAgain, RRoad>>), LinksTo(JNum(5))),
    Page(JList(<<RBridgeAgain, RRoad>>), JStr("p3")),
    Page(JStr("x"), LinksTo(JChars(LinkA))),
    JList(<<>>)}

\* responses of requests.get that return normally
Responses ==
    {[status |-> 500, json |-> FALSE, data |-> JNone],
     [status |-> 200, json |-> FALSE, data |-> JNone]}
    \cup {[status |-> 200, json |-> TRUE, data |-> p] : p \in Pages \cup MalformedPages}

\* data.get("releases", [])
ReleasesOf(data) ==
    IF data.v.releases.k = "absent" THEN JList(<<>>) ELSE data.v.releases

\* line 177 raises: data["links"].get on a truthy value that is no dict
LinksRaise(data) == Truthy(data.v.links) /\ data.v.links.k # "dict"

\* data["links"].get("next") where "links" is a truthy dict, else None
NextLink(data) ==
    IF Truthy(data.v.links) /\ data.v.links.k = "dict"
    THEN Get(data.v.links.v.next) ELSE JNone

\* the response is a decoded payload of the expected shape
Decoded(response) ==
    response.status = 200 /\ response.json /\ response.data.k = "dict"

\* the page says where the listing goes on: a next link that can be stored
Continues(response) ==
    /\ Decoded(response)
    /\ ~LinksRaise(response.data)
    /\ Truthy(NextLink(response.data))
    /\ ~WriteRaises(NextLink(response.data))

\* what the history keeps of an attempt: no response (a transport error, or
\* no attempt yet), or the status and decodability of the response, whether
\* it has no releases, whether the loop over its releases ran to the end,
\* and its next link
NoResponse == [k |-> "none"]
Received(response, completed) ==
    [k |-> "response", status |-> response.status, json |-> response.json,
     empty |-> ~Decoded(response) \/ ~Truthy(ReleasesOf(response.data)),
     completed |-> completed,
     next |-> IF Decoded(response) /\ ~LinksRaise(response.data)
              THEN NextLink(response.data) ELSE JNone]

(***************************************************************************)
(* contracts_finder.py : fetch_2025_construction_contracts as a state      *)
(* machine.  One step is one requests.get attempt of safe_get together     *)
(* with everything the loop does with its result.                          *)
(***************************************************************************)
Terminal == {"DONE", "STOPPED", "ABORTED"}

\* cursor files a run may find at startup: none, a link as written by
\* save_last_cursor, or a link between blanks (a vertical tab before it,
\* a unit separator and a newline after it)
InitialCursorFiles ==
    {NoFile, File(LinkA), File(<<"U+000B">> \o LinkA \o <<"U+001F", "\n">>)}

IngestInit ==
    /\ cursor_file \in InitialCursorFiles
    /\ output_file = NoFile
    /\ pc = "START"
    /\ end_reason = "none"
    /\ all_contracts = <<>>
    /\ seen_ocids = {}
    /\ next_url = JNone
    /\ first_page = TRUE
    /\ page_count = 0
    /\ attempt = 0
    /\ run = 0
    /\ requests = 0
    /\ last_request = [url |-> <<>>, params |-> NoParams, page |-> 0]
    /\ last_link = JNone
    /\ resumed = FALSE
    /\ repeat_dropped = FALSE
    /\ prev_run = [state |-> "START", reason |-> "none"]
    /\ start_output = NoFile
    /\ last_response = NoResponse
    /\ cursor_reads = 0
    /\ cursor_writes = 0

\* lines 99-116: a run starts, reads the cursor once, enters the loop
StartRun ==
    /\ pc \in {"START"} \cup Terminal
    /\ run < MaxRuns
    /\ run' = run + 1
    /\ all_contracts' = <<>>
    /\ seen_ocids' = {}
    /\ next_url' = load_last_cursor(cursor_file)
    /\ first_page' = (load_last_cursor(cursor_file).k = "none")
    /\ resumed' = (load_last_cursor(cursor_file).k # "none")
    /\ page_count' = 1
    /\ attempt' = 0
    /\ requests' = 0
    /\ last_link' = JNone
    /\ end_reason' = "none"
    /\ pc' = "FETCHING"
    /\ repeat_dropped' = FALSE
    /\ prev_run' = [state |-> pc, reason |-> end_reason]
    /\ start_output' = output_file
    /\ last_response' = NoResponse
    /\ cursor_reads' = 1
    /\ cursor_writes' = 0
    /\ UNCHANGED <<cursor_file, output_file, last_request>>
    /\ UNCHANGED <<canon_vars, pqe_vars>>

\* mutant of CurrentRequest: a persisted cursor is ignored on the first page
CurrentRequest_IgnoreCursor ==
    IF page_count = 1
    THEN [url |-> API_URL, params |-> InitialParams, page |-> page_count]
    ELSE [url |-> next_url.v, params |-> NoParams, page |-> page_count]

\* lines 119-123: the call the loop makes this iteration
CurrentRequest ==
    IF first_page
    THEN [url |-> API_URL, params |-> InitialParams, page |-> page_count]
    ELSE [url |-> next_url.v, params |-> NoParams, page |-> page_count]

\* mutant of RetriesExhausted: one attempt too many
RetriesExhausted_OffByOne(failed) == failed > MAX_RETRIES

\* safe_get gives up once `retries` attempts have failed
RetriesExhausted(failed) == failed >= MAX_RETRIES

\* mutant of EndRun: an aborted run discards what it accumulated
EndRun_DiscardOnAbort(state, reason, acc, seen) ==
    /\ pc' = state
    /\ end_reason' = reason
    /\ all_contracts' = acc
    /\ seen_ocids' = seen
    /\ output_file' = IF state = "ABORTED" THEN output_file
                      ELSE SaveOutput(acc, output_file)

\* lines 186-201: leave the loop and save what was accumulated
EndRun(state, reason, acc, seen) ==
    /\ pc' = state
    /\ end_reason' = reason
    /\ all_contracts' = acc
    /\ seen_ocids' = seen
    /\ output_file' = SaveOutput(acc, output_file)

\* safe_get lines 33-39: an attempt ends in a transport error; after the
\* last one RuntimeError reaches the handler at line 186
RequestFails ==
    /\ pc = "FETCHING"
    /\ requests' = requests + 1
    /\ last_request' = CurrentRequest
    /\ attempt' = attempt + 1
    /\ IF RetriesExhausted(attempt + 1)
       THEN EndRun("ABORTED", "retries", all_contracts, seen_ocids)
       ELSE UNCHANGED <<pc, end_reason, all_contracts, seen_ocids, output_file>>
    /\ last_response' = NoResponse
    /\ UNCHANGED <<cursor_file, next_url, first_page, page_count, run,
                   last_link, resumed, repeat_dropped, prev_run, start_output,
                   cursor_reads, cursor_writes>>
    /\ UNCHANGED <<canon_vars, pqe_vars>>

\* mutant of BadStatus: the status of a response is not inspected
BadStatus_NotInspected(response) == FALSE

\* line 125: the response carries a status other than 200
BadStatus(response) == response.status # 200

\* lines 125-184: the rest of the iteration once safe_get returned `response`
HandleResponse(response) ==
    LET data == response.data
        releases == IF Decoded(response) THEN ReleasesOf(data) ELSE JList(<<>>)
        looped == releases.k = "list"
        res == ProcessReleases(IF looped THEN releases.v ELSE <<>>, 1,
                               all_contracts, seen_ocids, repeat_dropped)
        link == NextLink(data)
    IN  /\ first_page' = FALSE
        /\ last_response' = Received(response, Decoded(response) /\ looped /\ ~res.raised)
        /\ repeat_dropped' = IF looped THEN res.dropped ELSE repeat_dropped
        /\ attempt' = 0
        /\ IF BadStatus(response)
           THEN /\ EndRun("STOPPED", "bad_status", all_contracts, seen_ocids)
                /\ UNCHANGED <<cursor_file, next_url, page_count, last_link,
                             cursor_writes>>
           ELSE IF ~response.json \/ data.k # "dict"   \* json(), data.get
           THEN /\ EndRun("ABORTED", "exception", all_contracts, seen_ocids)
                /\ UNCHANGED <<cursor_file, next_url, page_count, last_link,
                             cursor_writes>>
           ELSE IF ~Truthy(releases)
           THEN /\ EndRun("DONE", "no_releases", all_contracts, seen_ocids)
                /\ UNCHANGED <<cursor_file, next_url, page_count, last_link,
                             cursor_writes>>
           ELSE IF ~looped \/ res.raised       \* iteration, loop body
           THEN /\ EndRun("ABORTED", "exception", res.all_contracts, res.seen_ocids)
                /\ UNCHANGED <<cursor_file, next_url, page_count, last_link,
                             cursor_writes>>
           ELSE IF LinksRaise(data)
           THEN /\ EndRun("ABORTED", "exception", res.all_contracts, res.seen_ocids)
                /\ UNCHANGED <<cursor_file, next_url, page_count, last_link,
                             cursor_writes>>
           ELSE IF Truthy(link) /\ WriteRaises(link)
           THEN /\ EndRun("ABORTED", "exception", res.all_contracts, res.seen_ocids)
                /\ next_url' = link
                /\ cursor_file' = save_last_cursor(link)
                /\ cursor_writes' = cursor_writes + 1
                /\ last_link' = link
                /\ UNCHANGED page_count
           ELSE IF Truthy(link)
           THEN /\ next_url' = JChars(TextOf(link))
                /\ cursor_file' = save_last_cursor(link)
                /\ cursor_writes' = cursor_writes + 1
                /\ last_link' = JChars(TextOf(link))
                /\ page_count' = page_count + 1
                /\ all_contracts' = res.all_contracts
                /\ seen_ocids' = res.seen_ocids
                /\ UNCHANGED <<pc, end_reason, output_file>>
           ELSE /\ EndRun("DONE", "no_next", res.all_contracts, res.seen_ocids)
                /\ UNCHANGED <<cursor_file, next_url, page_count, cursor_writes>>
                /\ last_link' = JNone

\* an attempt returns a response; the listing holds at most MaxPages pages
RequestSucceeds ==
    /\ pc = "FETCHING"
    /\ \E response \in Responses :
          /\ page_count < MaxPages \/ ~Continues(response)
          /\ requests' = requests + 1
          /\ last_request' = CurrentRequest
          /\ HandleResponse(response)
    /\ UNCHANGED <<run, resumed, prev_run, start_output, cursor_reads>>
    /\ UNCHANGED <<canon_vars, pqe_vars>>

(***************************************************************************)
(* More text helpers (clean_data.py, pqe_engine.py)                        *)
(***************************************************************************)
\* str.lower() and str.upper() of one character.  A rule <<first, last,
\* step, delta>> moves every step-th code point of first..last by delta; the
\* characters whose result is longer than one character are listed apart.
LowerRules == Quads(<<
    65, 90, 1, 32,  192, 214, 1, 32,  216, 222, 1, 32,  256, 302, 2, 1,  306, 310, 2, 1,
    313, 327, 2, 1,  330, 374, 2, 1,  376, 376, 1, -121,  377, 381, 2, 1,  385, 385, 1, 210,
    386, 388, 2, 1,  390, 390, 1, 206,  391, 391, 1, 1,  393, 394, 1, 205,  395, 395, 1, 1,
    398, 398, 1, 79,  399, 399, 1, 202,  400, 400, 1, 203,  401, 401, 1, 1,  403, 403, 1, 205,
    404, 404, 1, 207,  406, 406, 1, 211,  407, 407, 1, 209,  408, 408, 1, 1,  412, 412, 1, 211,
    413, 413, 1, 213,  415, 415, 1, 214,  416, 420, 2, 1,  422, 422, 1, 218,  423, 423, 1, 1,
    425, 425, 1, 218,  428, 428, 1, 1,  430, 430, 1, 218,  431, 431, 1, 1,  433, 434, 1, 217,
    435, 437, 2, 1,  439, 439, 1, 219,  440, 440, 1, 1,  444, 444, 1, 1,  452, 452, 1, 2,
    453, 453, 1, 1,  455, 455, 1, 2,  456, 456, 1, 1,  458, 458, 1, 2,  459, 475, 2, 1,
    478, 494, 2, 1,  497, 497, 1, 2,  498, 500, 2, 1,  502, 502, 1, -97,  503, 503, 1, -56,
    504, 542, 2, 1,  544, 544, 1, -130,  546, 562, 2, 1,  570, 570, 1, 10795,  571, 571, 1, 1,
    573, 573, 1, -163,  574, 574, 1, 10792,  577, 577, 1, 1,  579, 579, 1, -195,  580, 580, 1, 69,
    581, 581, 1, 71,  582, 590, 2, 1,  880, 882, 2, 1,  886, 886, 1, 1,  895, 895, 1, 116,
    902, 902, 1, 38,  904, 906, 1, 37,  908, 908, 1, 64,  910, 911, 1, 63,  913, 929, 1, 32,
    931, 939, 1, 32,  975, 975, 1, 8,  984, 1006, 2, 1,  1012, 1012, 1, -60,  1015, 1015, 1, 1,
    1017, 1017, 1, -7,  1018, 1018, 1, 1,  1021, 1023, 1, -130,  1024, 1039, 1, 80,
    1040, 1071, 1, 32,  1120, 1152, 2, 1,  1162, 1214, 2, 1,  1216, 1216, 1, 15,  1217, 1229, 2, 1,
    1232, 1326, 2, 1,  1329, 1366, 1, 48,  4256, 4293, 1, 7264,  4295, 4295, 1, 7264,
    4301, 4301, 1, 7264,  5024, 5103, 1, 38864,  5104, 5109, 1, 8,  7312, 7354, 1, -3008,
    7357, 7359, 1, -3008,  7680, 7828, 2, 1,  7838, 7838, 1, -7615,  7840, 7934, 2, 1,
    7944, 7951, 1, -8,  7960, 7965, 1, -8,  7976, 7983, 1, -8,  7992, 7999, 1, -8,
    8008, 8013, 1, -8,  8025, 8031, 2, -8,  8040, 8047, 1, -8,  8072, 8079, 1, -8,
    8088, 8095, 1, -8,  8104, 8111, 1, -8,  8120, 8121, 1, -8,  8122, 8123, 1, -74,
    8124, 8124, 1, -9,  8136, 8139, 1, -86,  8140, 8140, 1, -9,  8152, 8153, 1, -8,
    8154, 8155, 1, -100,  8168, 8169, 1, -8,  8170, 8171, 1, -112,  8172, 8172, 1, -7,
    8184, 8185, 1, -128,  8186, 8187, 1, -126,  8188, 8188, 1, -9,  8486, 8486, 1, -7517,
    8490, 8490, 1, -8383,  8491, 8491, 1, -8262,  8498, 8498, 1, 28,  8544, 8559, 1, 16,
    8579, 8579, 1, 1,  9398, 9423, 1, 26,  11264, 11311, 1, 48,  11360, 11360, 1, 1,
    11362, 11362, 1, -10743,  11363, 11363, 1, -3814,  11364, 11364, 1, -10727,  11367, 11371, 2, 1,
    11373, 11373, 1, -10780,  11374, 11374, 1, -10749,  11375, 11375, 1, -10783,
    11376, 11376, 1, -10782,  11378, 11378, 1, 1,  11381, 11381, 1, 1,  11390, 11391, 1, -10815,
    11392, 11490, 2, 1,  11499, 11501, 2, 1,  11506, 11506, 1, 1,  42560, 42604, 2, 1,
    42624, 42650, 2, 1,  42786, 42798, 2, 1,  42802, 42862, 2, 1,  42873, 42875, 2, 1,
    42877, 42877, 1, -35332,  42878, 42886, 2, 1,  42891, 42891, 1, 1,  42893, 42893, 1, -42280,
    42896, 42898, 2, 1,  42902, 42920, 2, 1,  42922, 42922, 1, -42308,  42923, 42923, 1, -42319,
    42924, 42924, 1, -42315,  42925, 42925, 1, -42305,  42926, 42926, 1, -42308,
    42928, 42928, 1, -42258,  42929, 42929, 1, -42282,  42930, 42930, 1, -42261,
    42931, 42931, 1, 928,  42932, 42946, 2, 1,  42948, 42948, 1, -48,  42949, 42949, 1, -42307,
    42950, 42950, 1, -35384,  42951, 42953, 2, 1,  42960, 42960, 1, 1,  42966, 42968, 2, 1,
    42997, 42997, 1, 1,  65313, 65338, 1, 32,  66560, 66599, 1, 40,  66736, 66771, 1, 40,
    66928, 66964, 2, 39,  66929, 66937, 2, 39,  66941, 66953, 2, 39,  66957, 66961, 2, 39,
    66965, 66965, 1, 39,  68736, 68786, 1, 64,  71840, 71871, 1, 32,  93760, 93791, 1, 32,
    125184, 125217, 1, 34>>)
LowerSpecial == {
    <<304, <<105, 775>>>>}
UpperRules == Quads(<<
    97, 122, 1, -32,  181, 181, 1, 743,  224, 246, 1, -32,  248, 254, 1, -32,  255, 255, 1, 121,
    257, 303, 2, -1,  305, 305, 1, -232,  307, 311, 2, -1,  314, 328, 2, -1,  331, 375, 2, -1,
    378, 382, 2, -1,  383, 383, 1, -300,  384, 384, 1, 195,  387, 389, 2, -1,  392, 392, 1, -1,
    396, 396, 1, -1,  402, 402, 1, -1,  405, 405, 1, 97,  409, 409, 1, -1,  410, 410, 1, 163,
    414, 414, 1, 130,  417, 421, 2, -1,  424, 424, 1, -1,  429, 429, 1, -1,  432, 432, 1, -1,
    436, 438, 2, -1,  441, 441, 1, -1,  445, 445, 1, -1,  447, 447, 1, 56,  453, 453, 1, -1,
    454, 454, 1, -2,  456, 456, 1, -1,  457, 457, 1, -2,  459, 459, 1, -1,  460, 460, 1, -2,
    462, 476, 2, -1,  477, 477, 1, -79,  479, 495, 2, -1,  498, 498, 1, -1,  499, 499, 1, -2,
    501, 501, 1, -1,  505, 543, 2, -1,  547, 563, 2, -1,  572, 572, 1, -1,  575, 576, 1, 10815,
    578, 578, 1, -1,  583, 591, 2, -1,  592, 592, 1, 10783,  593, 593, 1, 10780,  594, 594, 1, 10782,
    595, 595, 1, -210,  596, 596, 1, -206,  598, 599, 1, -205,  601, 601, 1, -202,
    603, 603, 1, -203,  604, 604, 1, 42319,  608, 608, 1, -205,  609, 609, 1, 42315,
    611, 611, 1, -207,  613, 613, 1, 42280,  614, 614, 1, 42308,  616, 616, 1, -209,
    617, 617, 1, -211,  618, 618, 1, 42308,  619, 619, 1, 10743,  620, 620, 1, 42305,
    623, 623, 1, -211,  625, 625, 1, 10749,  626, 626, 1, -213,  629, 629, 1, -214,
    637, 637, 1, 10727,  640, 640, 1, -218,  642, 642, 1, 42307,  643, 643, 1, -218,
    647, 647, 1, 42282,  648, 648, 1, -218,  649, 649, 1, -69,  650, 651, 1, -217,  652, 652, 1, -71,
    658, 658, 1, -219,  669, 669, 1, 42261,  670, 670, 1, 42258,  837, 837, 1, 84,  881, 883, 2, -1,
    887, 887, 1, -1,  891, 893, 1, 130,  940, 940, 1, -38,  941, 943, 1, -37,  945, 961, 1, -32,
    962, 962, 1, -31,  963, 971, 1, -32,  972, 972, 1, -64,  973, 974, 1, -63,  976, 976, 1, -62,
    977, 977, 1, -57,  981, 981, 1, -47,  982, 982, 1, -54,  983, 983, 1, -8,  985, 1007, 2, -1,
    1008, 1008, 1, -86,  1009, 1009, 1, -80,  1010, 1010, 1, 7,  1011, 1011, 1, -116,
    1013, 1013, 1, -96,  1016, 1016, 1, -1,  1019, 1019, 1, -1,  1072, 1103, 1, -32,
    1104, 1119, 1, -80,  1121, 1153, 2, -1,  1163, 1215, 2, -1,  1218, 1230, 2, -1,
    1231, 1231, 1, -15,  1233, 1327, 2, -1,  1377, 1414, 1, -48,  4304, 4346, 1, 3008,
    4349, 4351, 1, 3008,  5112, 5117, 1, -8,  7296, 7296, 1, -6254,  7297, 7297, 1, -6253,
    7298, 7298, 1, -6244,  7299, 7300, 1, -6242,  7301, 7301, 1, -6243,  7302, 7302, 1, -6236,
    7303, 7303, 1, -6181,  7304, 7304, 1, 35266,  7545, 7545, 1, 35332,  7549, 7549, 1, 3814,
    7566, 7566, 1, 35384,  7681, 7829, 2, -1,  7835, 7835, 1, -59,  7841, 7935, 2, -1,
    7936, 7943, 1, 8,  7952, 7957, 1, 8,  7968, 7975, 1, 8,  7984, 7991, 1, 8,  8000, 8005, 1, 8,
    8017, 8023, 2, 8,  8032, 8039, 1, 8,  8048, 8049, 1, 74,  8050, 8053, 1, 86,  8054, 8055, 1, 100,
    8056, 8057, 1, 128,  8058, 8059, 1, 112,  8060, 8061, 1, 126,  8112, 8113, 1, 8,
    8126, 8126, 1, -7205,  8144, 8145, 1, 8,  8160, 8161, 1, 8,  8165, 8165, 1, 7,
    8526, 8526, 1, -28,  8560, 8575, 1, -16,  8580, 8580, 1, -1,  9424, 9449, 1, -26,
    11312, 11359, 1, -48,  11361, 11361, 1, -1,  11365, 11365, 1, -10795,  11366, 11366, 1, -10792,
    11368, 11372, 2, -1,  11379, 11379, 1, -1,  11382, 11382, 1, -1,  11393, 11491, 2, -1,
    11500, 11502, 2, -1,  11507, 11507, 1, -1,  11520, 11557, 1, -7264,  11559, 11559, 1, -7264,
    11565, 11565, 1, -7264,  42561, 42605, 2, -1,  42625, 42651, 2, -1,  42787, 42799, 2, -1,
    42803, 42863, 2, -1,  42874, 42876, 2, -1,  42879, 42887, 2, -1,  42892, 42892, 1, -1,
    42897, 42899, 2, -1,  42900, 42900, 1, 48,  42903, 42921, 2, -1,  42933, 42947, 2, -1,
    42952, 42954, 2, -1,  42961, 42961, 1, -1,  42967, 42969, 2, -1,  42998, 42998, 1, -1,
    43859, 43859, 1, -928,  43888, 43967, 1, -38864,  65345, 65370, 1, -32,  66600, 66639, 1, -40,
    66776, 66811, 1, -40,  66967, 67003, 2, -39,  66968, 66976, 2, -39,  66980, 66992, 2, -39,
    66996, 67000, 2, -39,  67004, 67004, 1, -39,  68800, 68850, 1, -64,  71872, 71903, 1, -32,
    93792, 93823, 1, -32,  125218, 125251, 1, -34>>)
UpperSpecial == {
    <<223, <<83, 83>>>>, <<329, <<700, 78>>>>, <<496, <<74, 780>>>>, <<912, <<921, 776, 769>>>>,
    <<944, <<933, 776, 769>>>>, <<1415, <<1333, 1362>>>>, <<7830, <<72, 817>>>>, <<7831, <<84, 776>>>>,
    <<7832, <<87, 778>>>>, <<7833, <<89, 778>>>>, <<7834, <<65, 702>>>>, <<8016, <<933, 787>>>>,
    <<8018, <<933, 787, 768>>>>, <<8020, <<933, 787, 769>>>>, <<8022, <<933, 787, 834>>>>, <<8064, <<7944, 921>>>>,
    <<8065, <<7945, 921>>>>, <<8066, <<7946, 921>>>>, <<8067, <<7947, 921>>>>, <<8068, <<7948, 921>>>>,
    <<8069, <<7949, 921>>>>, <<8070, <<7950, 921>>>>, <<8071, <<7951, 921>>>>, <<8072, <<7944, 921>>>>,
    <<8073, <<7945, 921>>>>, <<8074, <<7946, 921>>>>, <<8075, <<7947, 921>>>>, <<8076, <<7948, 921>>>>,
    <<8077, <<7949, 921>>>>, <<8078, <<7950, 921>>>>, <<8079, <<7951, 921>>>>, <<8080, <<7976, 921>>>>,
    <<8081, <<7977, 921>>>>, <<8082, <<7978, 921>>>>, <<8083, <<7979, 921>>>>, <<8084, <<7980, 921>>>>,
    <<8085, <<7981, 921>>>>, <<8086, <<7982, 921>>>>, <<8087, <<7983, 921>>>>, <<8088, <<7976, 921>>>>,
    <<8089, <<7977, 921>>>>, <<8090, <<7978, 921>>>>, <<8091, <<7979, 921>>>>, <<8092, <<7980, 921>>>>,
    <<8093, <<7981, 921>>>>, <<8094, <<7982, 921>>>>, <<8095, <<7983, 921>>>>, <<8096, <<8040, 921>>>>,
    <<8097, <<8041, 921>>>>, <<8098, <<8042, 921>>>>, <<8099, <<8043, 921>>>>, <<8100, <<8044, 921>>>>,
    <<8101, <<8045, 921>>>>, <<8102, <<8046, 921>>>>, <<8103, <<8047, 921>>>>, <<8104, <<8040, 921>>>>,
    <<8105, <<8041, 921>>>>, <<8106, <<8042, 921>>>>, <<8107, <<8043, 921>>>>, <<8108, <<8044, 921>>>>,
    <<8109, <<8045, 921>>>>, <<8110, <<8046, 921>>>>, <<8111, <<8047, 921>>>>, <<8114, <<8122, 921>>>>,
    <<8115, <<913, 921>>>>, <<8116, <<902, 921>>>>, <<8118, <<913, 834>>>>, <<8119, <<913, 834, 921>>>>,
    <<8124, <<913, 921>>>>, <<8130, <<8138, 921>>>>, <<8131, <<919, 921>>>>, <<8132, <<905, 921>>>>,
    <<8134, <<919, 834>>>>, <<8135, <<919, 834, 921>>>>, <<8140, <<919, 921>>>>, <<8146, <<921, 776, 768>>>>,
    <<8147, <<921, 776, 769>>>>, <<8150, <<921, 834>>>>, <<8151, <<921, 776, 834>>>>, <<8162, <<933, 776, 768>>>>,
    <<8163, <<933, 776, 769>>>>, <<8164, <<929, 787>>>>, <<8166, <<933, 834>>>>, <<8167, <<933, 776, 834>>>>,
    <<8178, <<8186, 921>>>>, <<8179, <<937, 921>>>>, <<8180, <<911, 921>>>>, <<8182, <<937, 834>>>>,
    <<8183, <<937, 834, 921>>>>, <<8188, <<937, 921>>>>, <<64256, <<70, 70>>>>, <<64257, <<70, 73>>>>,
    <<64258, <<70, 76>>>>, <<64259, <<70, 70, 73>>>>, <<64260, <<70, 70, 76>>>>, <<64261, <<83, 84>>>>,
    <<64262, <<83, 84>>>>, <<64275, <<1348, 1350>>>>, <<64276, <<1348, 1333>>>>, <<64277, <<1348, 1339>>>>,
    <<64278, <<1358, 1350>>>>, <<64279, <<1348, 1341>>>>}
InRule(n, r) == r[1] <= n /\ n <= r[2] /\ (n - r[1]) % r[3] = 0
CaseCodes(n, rules, special) ==
    IF \E p \in special : p[1] = n THEN (CHOOSE p \in special : p[1] = n)[2]
    ELSE IF \E r \in rules : InRule(n, r)
    THEN <<n + (CHOOSE r \in rules : InRule(n, r))[4]>>
    ELSE <<n>>
CaseText(c, rules, special) ==
    LET codes == CaseCodes(ord(c), rules, special)
    IN [i \in 1..Len(codes) |-> chr(codes[i])]
Changed(rules, special) ==
    {chr(p[1]) : p \in special}
        \cup {chr(n) : n \in UNION {{m \in r[1]..r[2] : InRule(m, r)} : r \in rules}}

\* the characters str.lower() changes and those str.upper() changes, with
\* the text each becomes
UpperSet == Changed(LowerRules, LowerSpecial)
LowerSet == Changed(UpperRules, UpperSpecial)
LowerOf == [c \in UpperSet |-> CaseText(c, LowerRules, LowerSpecial)]
UpperOf == [c \in LowerSet |-> CaseText(c, UpperRules, UpperSpecial)]
LowerChar(c) == IF c \in UpperSet THEN LowerOf[c] ELSE <<c>>
UpperChar(c) == IF c \in LowerSet THEN UpperOf[c] ELSE <<c>>

\* the cased characters that are not case-ignorable, and the case-ignorable
\* characters: the context of a capital sigma
CasedRanges == Pairs(<<
    65, 90,  97, 122,  170, 170,  181, 181,  186, 186,  192, 214,  216, 246,  248, 442,  444, 447,
    452, 659,  661, 687,  880, 883,  886, 887,  891, 893,  895, 895,  902, 902,  904, 906,  908, 908,
    910, 929,  931, 1013,  1015, 1153,  1162, 1327,  1329, 1366,  1376, 1416,  4256, 4293,
    4295, 4295,  4301, 4301,  4304, 4346,  4349, 4351,  5024, 5109,  5112, 5117,  7296, 7304,
    7312, 7354,  7357, 7359,  7424, 7467,  7531, 7543,  7545, 7578,  7680, 7957,  7960, 7965,
    7968, 8005,  8008, 8013,  8016, 8023,  8025, 8025,  8027, 8027,  8029, 8029,  8031, 8061,
    8064, 8116,  8118, 8124,  8126, 8126,  8130, 8132,  8134, 8140,  8144, 8147,  8150, 8155,
    8160, 8172,  8178, 8180,  8182, 8188,  8450, 8450,  8455, 8455,  8458, 8467,  8469, 8469,
    8473, 8477,  8484, 8484,  8486, 8486,  8488, 8488,  8490, 8493,  8495, 8500,  8505, 8505,
    8508, 8511,  8517, 8521,  8526, 8526,  8544, 8575,  8579, 8580,  9398, 9449,  11264, 11387,
    11390, 11492,  11499, 11502,  11506, 11507,  11520, 11557,  11559, 11559,  11565, 11565,
    42560, 42605,  42624, 42651,  42786, 42863,  42865, 42887,  42891, 42894,  42896, 42954,
    42960, 42961,  42963, 42963,  42965, 42969,  42997, 42998,  43002, 43002,  43824, 43866,
    43872, 43880,  43888, 43967,  64256, 64262,  64275, 64279,  65313, 65338,  65345, 65370,
    66560, 66639,  66736, 66771,  66776, 66811,  66928, 66938,  66940, 66954,  66956, 66962,
    66964, 66965,  66967, 66977,  66979, 66993,  66995, 67001,  67003, 67004,  68736, 68786,
    68800, 68850,  71840, 71903,  93760, 93823,  119808, 119892,  119894, 119964,  119966, 119967,
    119970, 119970,  119973, 119974,  119977, 119980,  119982, 119993,  119995, 119995,
    119997, 120003,  120005, 120069,  120071, 120074,  120077, 120084,  120086, 120092,
    120094, 120121,  120123, 120126,  120128, 120132,  120134, 120134,  120138, 120144,
    120146, 120485,  120488, 120512,  120514, 120538,  120540, 120570,  120572, 120596,
    120598, 120628,  120630, 120654,  120656, 120686,  120688, 120712,  120714, 120744,
    120746, 120770,  120772, 120779,  122624, 122633,  122635, 122654,  125184, 125251,
    127280, 127305,  127312, 127337,  127344, 127369>>)
CaseIgnorableRanges == Pairs(<<
    39, 39,  46, 46,  58, 58,  94, 94,  96, 96,  168, 168,  173, 173,  175, 175,  180, 180,
    183, 184,  688, 879,  884, 885,  890, 890,  900, 901,  903, 903,  1155, 1161,  1369, 1369,
    1375, 1375,  1425, 1469,  1471, 1471,  1473, 1474,  1476, 1477,  1479, 1479,  1524, 1524,
    1536, 1541,  1552, 1562,  1564, 1564,  1600, 1600,  1611, 1631,  1648, 1648,  1750, 1757,
    1759, 1768,  1770, 1773,  1807, 1807,  1809, 1809,  1840, 1866,  1958, 1968,  2027, 2037,
    2042, 2042,  2045, 2045,  2070, 2093,  2137, 2139,  2184, 2184,  2192, 2193,  2200, 2207,
    2249, 2306,  2362, 2362,  2364, 2364,  2369, 2376,  2381, 2381,  2385, 2391,  2402, 2403,
    2417, 2417,  2433, 2433,  2492, 2492,  2497, 2500,  2509, 2509,  2530, 2531,  2558, 2558,
    2561, 2562,  2620, 2620,  2625, 2626,  2631, 2632,  2635, 2637,  2641, 2641,  2672, 2673,
    2677, 2677,  2689, 2690,  2748, 2748,  2753, 2757,  2759, 2760,  2765, 2765,  2786, 2787,
    2810, 2815,  2817, 2817,  2876, 2876,  2879, 2879,  2881, 2884,  2893, 2893,  2901, 2902,
    2914, 2915,  2946, 2946,  3008, 3008,  3021, 3021,  3072, 3072,  3076, 3076,  3132, 3132,
    3134, 3136,  3142, 3144,  3146, 3149,  3157, 3158,  3170, 3171,  3201, 3201,  3260, 3260,
    3263, 3263,  3270, 3270,  3276, 3277,  3298, 3299,  3328, 3329,  3387, 3388,  3393, 3396,
    3405, 3405,  3426, 3427,  3457, 3457,  3530, 3530,  3538, 3540,  3542, 3542,  3633, 3633,
    3636, 3642,  3654, 3662,  3761, 3761,  3764, 3772,  3782, 3782,  3784, 3789,  3864, 3865,
    3893, 3893,  3895, 3895,  3897, 3897,  3953, 3966,  3968, 3972,  3974, 3975,  3981, 3991,
    3993, 4028,  4038, 4038,  4141, 4144,  4146, 4151,  4153, 4154,  4157, 4158,  4184, 4185,
    4190, 4192,  4209, 4212,  4226, 4226,  4229, 4230,  4237, 4237,  4253, 4253,  4348, 4348,
    4957, 4959,  5906, 5908,  5938, 5939,  5970, 5971,  6002, 6003,  6068, 6069,  6071, 6077,
    6086, 6086,  6089, 6099,  6103, 6103,  6109, 6109,  6155, 6159,  6211, 6211,  6277, 6278,
    6313, 6313,  6432, 6434,  6439, 6440,  6450, 6450,  6457, 6459,  6679, 6680,  6683, 6683,
    6742, 6742,  6744, 6750,  6752, 6752,  6754, 6754,  6757, 6764,  6771, 6780,  6783, 6783,
    6823, 6823,  6832, 6862,  6912, 6915,  6964, 6964,  6966, 6970,  6972, 6972,  6978, 6978,
    7019, 7027,  7040, 7041,  7074, 7077,  7080, 7081,  7083, 7085,  7142, 7142,  7144, 7145,
    7149, 7149,  7151, 7153,  7212, 7219,  7222, 7223,  7288, 7293,  7376, 7378,  7380, 7392,
    7394, 7400,  7405, 7405,  7412, 7412,  7416, 7417,  7468, 7530,  7544, 7544,  7579, 7679,
    8125, 8125,  8127, 8129,  8141, 8143,  8157, 8159,  8173, 8175,  8189, 8190,  8203, 8207,
    8216, 8217,  8228, 8228,  8231, 8231,  8234, 8238,  8288, 8292,  8294, 8303,  8305, 8305,
    8319, 8319,  8336, 8348,  8400, 8432,  11388, 11389,  11503, 11505,  11631, 11631,  11647, 11647,
    11744, 11775,  11823, 11823,  12293, 12293,  12330, 12333,  12337, 12341,  12347, 12347,
    12441, 12446,  12540, 12542,  40981, 40981,  42232, 42237,  42508, 42508,  42607, 42610,
    42612, 42621,  42623, 42623,  42652, 42655,  42736, 42737,  42752, 42785,  42864, 42864,
    42888, 42890,  42994, 42996,  43000, 43001,  43010, 43010,  43014, 43014,  43019, 43019,
    43045, 43046,  43052, 43052,  43204, 43205,  43232, 43249,  43263, 43263,  43302, 43309,
    43335, 43345,  43392, 43394,  43443, 43443,  43446, 43449,  43452, 43453,  43471, 43471,
    43493, 43494,  43561, 43566,  43569, 43570,  43573, 43574,  43587, 43587,  43596, 43596,
    43632, 43632,  43644, 43644,  43696, 43696,  43698, 43700,  43703, 43704,  43710, 43711,
    43713, 43713,  43741, 43741,  43756, 43757,  43763, 43764,  43766, 43766,  43867, 43871,
    43881, 43883,  44005, 44005,  44008, 44008,  44013, 44013,  64286, 64286,  64434, 64450,
    65024, 65039,  65043, 65043,  65056, 65071,  65106, 65106,  65109, 65109,  65279, 65279,
    65287, 65287,  65294, 65294,  65306, 65306,  65342, 65342,  65344, 65344,  65392, 65392,
    65438, 65439,  65507, 65507,  65529, 65531,  66045, 66045,  66272, 66272,  66422, 66426,
    67456, 67461,  67463, 67504,  67506, 67514,  68097, 68099,  68101, 68102,  68108, 68111,
    68152, 68154,  68159, 68159,  68325, 68326,  68900, 68903,  69291, 69292,  69446, 69456,
    69506, 69509,  69633, 69633,  69688, 69702,  69744, 69744,  69747, 69748,  69759, 69761,
    69811, 69814,  69817, 69818,  69821, 69821,  69826, 69826,  69837, 69837,  69888, 69890,
    69927, 69931,  69933, 69940,  70003, 70003,  70016, 70017,  70070, 70078,  70089, 70092,
    70095, 70095,  70191, 70193,  70196, 70196,  70198, 70199,  70206, 70206,  70367, 70367,
    70371, 70378,  70400, 70401,  70459, 70460,  70464, 70464,  70502, 70508,  70512, 70516,
    70712, 70719,  70722, 70724,  70726, 70726,  70750, 70750,  70835, 70840,  70842, 70842,
    70847, 70848,  70850, 70851,  71090, 71093,  71100, 71101,  71103, 71104,  71132, 71133,
    71219, 71226,  71229, 71229,  71231, 71232,  71339, 71339,  71341, 71341,  71344, 71349,
    71351, 71351,  71453, 71455,  71458, 71461,  71463, 71467,  71727, 71735,  71737, 71738,
    71995, 71996,  71998, 71998,  72003, 72003,  72148, 72151,  72154, 72155,  72160, 72160,
    72193, 72202,  72243, 72248,  72251, 72254,  72263, 72263,  72273, 72278,  72281, 72283,
    72330, 72342,  72344, 72345,  72752, 72758,  72760, 72765,  72767, 72767,  72850, 72871,
    72874, 72880,  72882, 72883,  72885, 72886,  73009, 73014,  73018, 73018,  73020, 73021,
    73023, 73029,  73031, 73031,  73104, 73105,  73109, 73109,  73111, 73111,  73459, 73460,
    78896, 78904,  92912, 92916,  92976, 92982,  92992, 92995,  94031, 94031,  94095, 94111,
    94176, 94177,  94179, 94180,  110576, 110579,  110581, 110587,  110589, 110590,  113821, 113822,
    113824, 113827,  118528, 118573,  118576, 118598,  119143, 119145,  119155, 119170,
    119173, 119179,  119210, 119213,  119362, 119364,  121344, 121398,  121403, 121452,
    121461, 121461,  121476, 121476,  121499, 121503,  121505, 121519,  122880, 122886,
    122888, 122904,  122907, 122913,  122915, 122916,  122918, 122922,  123184, 123197,
    123566, 123566,  123628, 123631,  125136, 125142,  125252, 125259,  127995, 127999,
    917505, 917505,  917536, 917631,  917760, 917999>>)
IsCased(c) == InRanges(ord(c), CasedRanges)
IsCaseIgnorable(c) == InRanges(ord(c), CaseIgnorableRanges)

\* the capital sigma at s[i] is final: a cased character before it and none
\* after it, case-ignorable characters skipped
handle_capital_sigma(s, i) ==
    LET Before(j) == /\ IsCased(s[j])
                     /\ \A k \in (j + 1)..(i - 1) : IsCaseIgnorable(s[k])
        After(j) == /\ IsCased(s[j])
                    /\ \A k \in (i + 1)..(j - 1) : IsCaseIgnorable(s[k])
    IN IF /\ \E j \in 1..(i - 1) : Before(j)
          /\ ~\E j \in (i + 1)..Len(s) : After(j)
       THEN "U+03C2" ELSE "U+03C3"

\* str.lower(), str.upper()
Sigma == "U+03A3"
LowerAt(s, i) ==
    IF s[i] = Sigma THEN <<handle_capital_sigma(s, i)>> ELSE LowerChar(s[i])
RECURSIVE LowerFrom(_, _)
LowerFrom(s, i) ==
    IF i > Len(s) THEN <<>> ELSE LowerAt(s, i) \o LowerFrom(s, i + 1)
Lower(s) ==
    IF \E i \in 1..Len(s) : Len(LowerAt(s, i)) # 1 THEN LowerFrom(s, 1)
    ELSE [i \in 1..Len(s) |-> LowerAt(s, i)[1]]
RECURSIVE Upper(_)
Upper(s) == IF s = <<>> THEN <<>> ELSE UpperChar(Head(s)) \o Upper(Tail(s))

\* str.replace(old, new) for a one-character old
RECURSIVE ReplaceChar(_, _, _)
ReplaceChar(s, old, new) ==
    IF s = <<>> THEN <<>>
    ELSE (IF Head(s) = old THEN new ELSE <<Head(s)>>)
         \o ReplaceChar(Tail(s), old, new)

\* str.split(): the maximal runs of non-whitespace characters
RECURSIVE SplitWords(_, _)
SplitWords(s, word) ==
    IF s = <<>> THEN (IF word = <<>> THEN <<>> ELSE <<word>>)
    ELSE IF Head(s) \in Whitespace
         THEN (IF word = <<>> THEN <<>> ELSE <<word>>) \o SplitWords(Tail(s), <<>>)
         ELSE SplitWords(Tail(s), Append(word, Head(s)))
Split(s) == SplitWords(s, <<>>)

\* re.sub(r'\s+', ' ', s)
RECURSIVE CollapseSpaces(_)
CollapseSpaces(s) ==
    IF s = <<>> THEN <<>>
    ELSE IF Head(s) \in Whitespace
         THEN <<" ">> \o CollapseSpaces(LStrip(s))
         ELSE <<Head(s)>> \o CollapseSpaces(Tail(s))

\* regular expressions: \w (str.isalnum() or the underscore), and \b at the
\* gap before s[p]
WordRanges == Pairs(<<
    48, 57,  65, 90,  95, 95,  97, 122,  170, 170,  178, 179,  181, 181,  185, 186,  188, 190,
    192, 214,  216, 246,  248, 705,  710, 721,  736, 740,  748, 748,  750, 750,  880, 884,  886, 887,
    890, 893,  895, 895,  902, 902,  904, 906,  908, 908,  910, 929,  931, 1013,  1015, 1153,
    1162, 1327,  1329, 1366,  1369, 1369,  1376, 1416,  1488, 1514,  1519, 1522,  1568, 1610,
    1632, 1641,  1646, 1647,  1649, 1747,  1749, 1749,  1765, 1766,  1774, 1788,  1791, 1791,
    1808, 1808,  1810, 1839,  1869, 1957,  1969, 1969,  1984, 2026,  2036, 2037,  2042, 2042,
    2048, 2069,  2074, 2074,  2084, 2084,  2088, 2088,  2112, 2136,  2144, 2154,  2160, 2183,
    2185, 2190,  2208, 2249,  2308, 2361,  2365, 2365,  2384, 2384,  2392, 2401,  2406, 2415,
    2417, 2432,  2437, 2444,  2447, 2448,  2451, 2472,  2474, 2480,  2482, 2482,  2486, 2489,
    2493, 2493,  2510, 2510,  2524, 2525,  2527, 2529,  2534, 2545,  2548, 2553,  2556, 2556,
    2565, 2570,  2575, 2576,  2579, 2600,  2602, 2608,  2610, 2611,  2613, 2614,  2616, 2617,
    2649, 2652,  2654, 2654,  2662, 2671,  2674, 2676,  2693, 2701,  2703, 2705,  2707, 2728,
    2730, 2736,  2738, 2739,  2741, 2745,  2749, 2749,  2768, 2768,  2784, 2785,  2790, 2799,
    2809, 2809,  2821, 2828,  2831, 2832,  2835, 2856,  2858, 2864,  2866, 2867,  2869, 2873,
    2877, 2877,  2908, 2909,  2911, 2913,  2918, 2927,  2929, 2935,  2947, 2947,  2949, 2954,
    2958, 2960,  2962, 2965,  2969, 2970,  2972, 2972,  2974, 2975,  2979, 2980,  2984, 2986,
    2990, 3001,  3024, 3024,  3046, 3058,  3077, 3084,  3086, 3088,  3090, 3112,  3114, 3129,
    3133, 3133,  3160, 3162,  3165, 3165,  3168, 3169,  3174, 3183,  3192, 3198,  3200, 3200,
    3205, 3212,  3214, 3216,  3218, 3240,  3242, 3251,  3253, 3257,  3261, 3261,  3293, 3294,
    3296, 3297,  3302, 3311,  3313, 3314,  3332, 3340,  3342, 3344,  3346, 3386,  3389, 3389,
    3406, 3406,  3412, 3414,  3416, 3425,  3430, 3448,  3450, 3455,  3461, 3478,  3482, 3505,
    3507, 3515,  3517, 3517,  3520, 3526,  3558, 3567,  3585, 3632,  3634, 3635,  3648, 3654,
    3664, 3673,  3713, 3714,  3716, 3716,  3718, 3722,  3724, 3747,  3749, 3749,  3751, 3760,
    3762, 3763,  3773, 3773,  3776, 3780,  3782, 3782,  3792, 3801,  3804, 3807,  3840, 3840,
    3872, 3891,  3904, 3911,  3913, 3948,  3976, 3980,  4096, 4138,  4159, 4169,  4176, 4181,
    4186, 4189,  4193, 4193,  4197, 4198,  4206, 4208,  4213, 4225,  4238, 4238,  4240, 4249,
    4256, 4293,  4295, 4295,  4301, 4301,  4304, 4346,  4348, 4680,  4682, 4685,  4688, 4694,
    4696, 4696,  4698, 4701,  4704, 4744,  4746, 4749,  4752, 4784,  4786, 4789,  4792, 4798,
    4800, 4800,  4802, 4805,  4808, 4822,  4824, 4880,  4882, 4885,  4888, 4954,  4969, 4988,
    4992, 5007,  5024, 5109,  5112, 5117,  5121, 5740,  5743, 5759,  5761, 5786,  5792, 5866,
    5870, 5880,  5888, 5905,  5919, 5937,  5952, 5969,  5984, 5996,  5998, 6000,  6016, 6067,
    6103, 6103,  6108, 6108,  6112, 6121,  6128, 6137,  6160, 6169,  6176, 6264,  6272, 6276,
    6279, 6312,  6314, 6314,  6320, 6389,  6400, 6430,  6470, 6509,  6512, 6516,  6528, 6571,
    6576, 6601,  6608, 6618,  6656, 6678,  6688, 6740,  6784, 6793,  6800, 6809,  6823, 6823,
    6917, 6963,  6981, 6988,  6992, 7001,  7043, 7072,  7086, 7141,  7168, 7203,  7232, 7241,
    7245, 7293,  7296, 7304,  7312, 7354,  7357, 7359,  7401, 7404,  7406, 7411,  7413, 7414,
    7418, 7418,  7424, 7615,  7680, 7957,  7960, 7965,  7968, 8005,  8008, 8013,  8016, 8023,
    8025, 8025,  8027, 8027,  8029, 8029,  8031, 8061,  8064, 8116,  8118, 8124,  8126, 8126,
    8130, 8132,  8134, 8140,  8144, 8147,  8150, 8155,  8160, 8172,  8178, 8180,  8182, 8188,
    8304, 8305,  8308, 8313,  8319, 8329,  8336, 8348,  8450, 8450,  8455, 8455,  8458, 8467,
    8469, 8469,  8473, 8477,  8484, 8484,  8486, 8486,  8488, 8488,  8490, 8493,  8495, 8505,
    8508, 8511,  8517, 8521,  8526, 8526,  8528, 8585,  9312, 9371,  9450, 9471,  10102, 10131,
    11264, 11492,  11499, 11502,  11506, 11507,  11517, 11517,  11520, 11557,  11559, 11559,
    11565, 11565,  11568, 11623,  11631, 11631,  11648, 11670,  11680, 11686,  11688, 11694,
    11696, 11702,  11704, 11710,  11712, 11718,  11720, 11726,  11728, 11734,  11736, 11742,
    11823, 11823,  12293, 12295,  12321, 12329,  12337, 12341,  12344, 12348,  12353, 12438,
    12445, 12447,  12449, 12538,  12540, 12543,  12549, 12591,  12593, 12686,  12690, 12693,
    12704, 12735,  12784, 12799,  12832, 12841,  12872, 12879,  12881, 12895,  12928, 12937,
    12977, 12991,  13312, 19903,  19968, 42124,  42192, 42237,  42240, 42508,  42512, 42539,
    42560, 42606,  42623, 42653,  42656, 42735,  42775, 42783,  42786, 42888,  42891, 42954,
    42960, 42961,  42963, 42963,  42965, 42969,  42994, 43009,  43011, 43013,  43015, 43018,
    43020, 43042,  43056, 43061,  43072, 43123,  43138, 43187,  43216, 43225,  43250, 43255,
    43259, 43259,  43261, 43262,  43264, 43301,  43312, 43334,  43360, 43388,  43396, 43442,
    43471, 43481,  43488, 43492,  43494, 43518,  43520, 43560,  43584, 43586,  43588, 43595,
    43600, 43609,  43616, 43638,  43642, 43642,  43646, 43695,  43697, 43697,  43701, 43702,
    43705, 43709,  43712, 43712,  43714, 43714,  43739, 43741,  43744, 43754,  43762, 43764,
    43777, 43782,  43785, 43790,  43793, 43798,  43808, 43814,  43816, 43822,  43824, 43866,
    43868, 43881,  43888, 44002,  44016, 44025,  44032, 55203,  55216, 55238,  55243, 55291,
    63744, 64109,  64112, 64217,  64256, 64262,  64275, 64279,  64285, 64285,  64287, 64296,
    64298, 64310,  64312, 64316,  64318, 64318,  64320, 64321,  64323, 64324,  64326, 64433,
    64467, 64829,  64848, 64911,  64914, 64967,  65008, 65019,  65136, 65140,  65142, 65276,
    65296, 65305,  65313, 65338,  65345, 65370,  65382, 65470,  65474, 65479,  65482, 65487,
    65490, 65495,  65498, 65500,  65536, 65547,  65549, 65574,  65576, 65594,  65596, 65597,
    65599, 65613,  65616, 65629,  65664, 65786,  65799, 65843,  65856, 65912,  65930, 65931,
    66176, 66204,  66208, 66256,  66273, 66299,  66304, 66339,  66349, 66378,  66384, 66421,
    66432, 66461,  66464, 66499,  66504, 66511,  66513, 66517,  66560, 66717,  66720, 66729,
    66736, 66771,  66776, 66811,  66816, 66855,  66864, 66915,  66928, 66938,  66940, 66954,
    66956, 66962,  66964, 66965,  66967, 66977,  66979, 66993,  66995, 67001,  67003, 67004,
    67072, 67382,  67392, 67413,  67424, 67431,  67456, 67461,  67463, 67504,  67506, 67514,
    67584, 67589,  67592, 67592,  67594, 67637,  67639, 67640,  67644, 67644,  67647, 67669,
    67672, 67702,  67705, 67742,  67751, 67759,  67808, 67826,  67828, 67829,  67835, 67867,
    67872, 67897,  67968, 68023,  68028, 68047,  68050, 68096,  68112, 68115,  68117, 68119,
    68121, 68149,  68160, 68168,  68192, 68222,  68224, 68255,  68288, 68295,  68297, 68324,
    68331, 68335,  68352, 68405,  68416, 68437,  68440, 68466,  68472, 68497,  68521, 68527,
    68608, 68680,  68736, 68786,  68800, 68850,  68858, 68899,  68912, 68921,  69216, 69246,
    69248, 69289,  69296, 69297,  69376, 69415,  69424, 69445,  69457, 69460,  69488, 69505,
    69552, 69579,  69600, 69622,  69635, 69687,  69714, 69743,  69745, 69746,  69749, 69749,
    69763, 69807,  69840, 69864,  69872, 69881,  69891, 69926,  69942, 69951,  69956, 69956,
    69959, 69959,  69968, 70002,  70006, 70006,  70019, 70066,  70081, 70084,  70096, 70106,
    70108, 70108,  70113, 70132,  70144, 70161,  70163, 70187,  70272, 70278,  70280, 70280,
    70282, 70285,  70287, 70301,  70303, 70312,  70320, 70366,  70384, 70393,  70405, 70412,
    70415, 70416,  70419, 70440,  70442, 70448,  70450, 70451,  70453, 70457,  70461, 70461,
    70480, 70480,  70493, 70497,  70656, 70708,  70727, 70730,  70736, 70745,  70751, 70753,
    70784, 70831,  70852, 70853,  70855, 70855,  70864, 70873,  71040, 71086,  71128, 71131,
    71168, 71215,  71236, 71236,  71248, 71257,  71296, 71338,  71352, 71352,  71360, 71369,
    71424, 71450,  71472, 71483,  71488, 71494,  71680, 71723,  71840, 71922,  71935, 71942,
    71945, 71945,  71948, 71955,  71957, 71958,  71960, 71983,  71999, 71999,  72001, 72001,
    72016, 72025,  72096, 72103,  72106, 72144,  72161, 72161,  72163, 72163,  72192, 72192,
    72203, 72242,  72250, 72250,  72272, 72272,  72284, 72329,  72349, 72349,  72368, 72440,
    72704, 72712,  72714, 72750,  72768, 72768,  72784, 72812,  72818, 72847,  72960, 72966,
    72968, 72969,  72971, 73008,  73030, 73030,  73040, 73049,  73056, 73061,  73063, 73064,
    73066, 73097,  73112, 73112,  73120, 73129,  73440, 73458,  73648, 73648,  73664, 73684,
    73728, 74649,  74752, 74862,  74880, 75075,  77712, 77808,  77824, 78894,  82944, 83526,
    92160, 92728,  92736, 92766,  92768, 92777,  92784, 92862,  92864, 92873,  92880, 92909,
    92928, 92975,  92992, 92995,  93008, 93017,  93019, 93025,  93027, 93047,  93053, 93071,
    93760, 93846,  93952, 94026,  94032, 94032,  94099, 94111,  94176, 94177,  94179, 94179,
    94208, 100343,  100352, 101589,  101632, 101640,  110576, 110579,  110581, 110587,
    110589, 110590,  110592, 110882,  110928, 110930,  110948, 110951,  110960, 111355,
    113664, 113770,  113776, 113788,  113792, 113800,  113808, 113817,  119520, 119539,
    119648, 119672,  119808, 119892,  119894, 119964,  119966, 119967,  119970, 119970,
    119973, 119974,  119977, 119980,  119982, 119993,  119995, 119995,  119997, 120003,
    120005, 120069,  120071, 120074,  120077, 120084,  120086, 120092,  120094, 120121,
    120123, 120126,  120128, 120132,  120134, 120134,  120138, 120144,  120146, 120485,
    120488, 120512,  120514, 120538,  120540, 120570,  120572, 120596,  120598, 120628,
    120630, 120654,  120656, 120686,  120688, 120712,  120714, 120744,  120746, 120770,
    120772, 120779,  120782, 120831,  122624, 122654,  123136, 123180,  123191, 123197,
    123200, 123209,  123214, 123214,  123536, 123565,  123584, 123627,  123632, 123641,
    124896, 124902,  124904, 124907,  124909, 124910,  124912, 124926,  124928, 125124,
    125127, 125135,  125184, 125251,  125259, 125259,  125264, 125273,  126065, 126123,
    126125, 126127,  126129, 126132,  126209, 126253,  126255, 126269,  126464, 126467,
    126469, 126495,  126497, 126498,  126500, 126500,  126503, 126503,  126505, 126514,
    126516, 126519,  126521, 126521,  126523, 126523,  126530, 126530,  126535, 126535,
    126537, 126537,  126539, 126539,  126541, 126543,  126545, 126546,  126548, 126548,
    126551, 126551,  126553, 126553,  126555, 126555,  126557, 126557,  126559, 126559,
    126561, 126562,  126564, 126564,  126567, 126570,  126572, 126578,  126580, 126583,
    126585, 126588,  126590, 126590,  126592, 126601,  126603, 126619,  126625, 126627,
    126629, 126633,  126635, 126651,  127232, 127244,  130032, 130041,  131072, 173791,
    173824, 177976,  177984, 178205,  178208, 183969,  183984, 191456,  194560, 195101,
    196608, 201546>>)
Latin1WordChars == {Latin1[n + 1] : n \in {m \in 0..255 : InRanges(m, WordRanges)}}
IsWordChar(c) ==
    IF Len(c) = 1 THEN c \in Latin1WordChars ELSE InRanges(ord(c), WordRanges)
Boundary(s, p) ==
    ((p > 1) /\ IsWordChar(s[p - 1])) # ((p <= Len(s)) /\ IsWordChar(s[p]))

\* end (exclusive) of a match of  word\.?\b  or  word\b  starting at i, 0 if none
MatchWord(s, i, alt) ==
    LET e == i + Len(alt.word) IN
    IF e - 1 > Len(s) \/ SubSeq(s, i, e - 1) # alt.word THEN 0
    ELSE IF alt.dot /\ e <= Len(s) /\ s[e] = "." /\ Boundary(s, e + 1) THEN e + 1
    ELSE IF Boundary(s, e) THEN e
    ELSE 0

\* end (exclusive) of a match of  \b(alt1|alt2|...)\b  starting at i, 0 if none
RECURSIVE MatchAlts(_, _, _, _)
MatchAlts(s, i, alts, n) ==
    IF n > Len(alts) \/ ~Boundary(s, i) THEN 0
    ELSE IF MatchWord(s, i, alts[n]) > 0 THEN MatchWord(s, i, alts[n])
    ELSE MatchAlts(s, i, alts, n + 1)

\* re.sub(r'\b(alt1|alt2|...)\b', repl, s), scanning from position i
RECURSIVE ReSub(_, _, _, _)
ReSub(s, i, alts, repl) ==
    IF i > Len(s) THEN <<>>
    ELSE LET e == MatchAlts(s, i, alts, 1) IN
         IF e > 0 THEN repl \o ReSub(s, e, alts, repl)
         ELSE <<s[i]>> \o ReSub(s, i + 1, alts, repl)

(***************************************************************************)
(* clean_data.py : canonicalizer                                           *)
(***************************************************************************)
NaN == [k |-> "nan"]

W_ltd == <<"l", "t", "d">>
W_limited == <<"l", "i", "m", "i", "t", "e", "d">>
W_plc == <<"p", "l", "c">>
W_co == <<"c", "o">>
W_company == <<"c", "o", "m", "p", "a", "n", "y">>
W_gov == <<"g", "o", "v">>
W_govt == <<"g", "o", "v", "t">>
W_government == <<"g", "o", "v", "e", "r", "n", "m", "e", "n", "t">>
W_and == <<"a", "n", "d">>

\* basic_normalize(text)
basic_normalize(text) ==
    IF text.k = "nan" THEN <<>>
    ELSE LET t0 == Lower(Strip(text.v))
             t1 == ReSub(t0, 1, <<[word |-> W_ltd, dot |-> TRUE],
                                  [word |-> W_limited, dot |-> FALSE]>>, W_limited)
             t2 == ReSub(t1, 1, <<[word |-> W_plc, dot |-> TRUE]>>, W_plc)
             t3 == ReSub(t2, 1, <<[word |-> W_co, dot |-> TRUE]>>, W_company)
             t4 == ReSub(t3, 1, <<[word |-> W_gov, dot |-> TRUE],
                                  [word |-> W_govt, dot |-> FALSE]>>, W_government)
             t5 == ReplaceChar(t4, "&", W_and)
         IN  CollapseSpaces(t5)

\* acronym(text): the upper-cased initials of the words
acronym(text) ==
    LET words == Split(text) IN Upper([i \in 1..Len(words) |-> words[i][1]])

\* the clustering key of a raw name (line 40-41)
ClusterKey(name) ==
    LET norm == basic_normalize(name) IN
    IF Len(Split(norm)) > 1 THEN acronym(norm) ELSE Upper(norm)

\* mutant of DropNaUnique: dropna() without unique()
RECURSIVE DropNaUnique_KeepRepeats(_)
DropNaUnique_KeepRepeats(column) ==
    IF column = <<>> THEN <<>>
    ELSE (IF Head(column).k = "nan" THEN <<>> ELSE <<Head(column)>>)
         \o DropNaUnique_KeepRepeats(Tail(column))

\* names.dropna().unique(): the distinct non-null values, first seen first
RECURSIVE DropNaUnique(_)
DropNaUnique(column) ==
    IF column = <<>> THEN <<>>
    ELSE LET init == DropNaUnique(SubSeq(column, 1, Len(column) - 1))
             last == column[Len(column)]
         IN  IF last.k = "nan" \/ \E j \in 1..Len(init) : init[j] = last
             THEN init ELSE Append(init, last)

\* clusters[key]: the distinct names whose key is `key`, first seen first;
\* keys[i] is the key of uniq[i]
RECURSIVE VariantsOf(_, _, _, _)
VariantsOf(uniq, keys, i, key) ==
    IF i > Len(uniq) THEN <<>>
    ELSE (IF keys[i] = key THEN <<uniq[i]>> ELSE <<>>)
         \o VariantsOf(uniq, keys, i + 1, key)

\* v.replace(" ", "").upper() == key
IsAcronymForm(name, key) == Upper(ReplaceChar(name.v, " ", <<>>)) = key

\* lines 47-50: the variants that are an acronym form of the key
RECURSIVE AcronymMatches(_, _)
AcronymMatches(variants, key) ==
    IF variants = <<>> THEN <<>>
    ELSE (IF IsAcronymForm(Head(variants), key) THEN <<Head(variants)>> ELSE <<>>)
         \o AcronymMatches(Tail(variants), key)

\* the keys of the clusters dict, in insertion order
RECURSIVE ClusterKeys(_)
ClusterKeys(keys) ==
    IF keys = <<>> THEN <<>>
    ELSE LET init == ClusterKeys(SubSeq(keys, 1, Len(keys) - 1))
             key == keys[Len(keys)]
         IN  IF \E j \in 1..Len(init) : init[j] = key THEN init
             ELSE Append(init, key)

\* Counter(variants).most_common(1)[0][0]: the first variant, in insertion
\* order, with the largest number of occurrences in `variants`
Count(variants, v) == Cardinality({i \in 1..Len(variants) : variants[i] = v})
MostCommon(variants) ==
    LET best == CHOOSE i \in 1..Len(variants) :
                   /\ \A j \in 1..Len(variants) :
                         Count(variants, variants[j]) <= Count(variants, variants[i])
                   /\ \A j \in 1..(i - 1) :
                         Count(variants, variants[j]) < Count(variants, variants[i])
    IN  variants[best]

\* mutant of Canonical: the acronym forms are not preferred
Canonical_FrequencyOnly(key, variants) == MostCommon(variants)

\* lines 47-56: the canonical name of a cluster
Canonical(key, variants) ==
    LET acronym_matches == AcronymMatches(variants, key) IN
    IF acronym_matches # <<>> THEN acronym_matches[1] ELSE MostCommon(variants)

\* lines 58-62: the rows of one cluster
ClusterRows(key, variants) ==
    LET canonical == Canonical(key, variants) IN
    [i \in 1..Len(variants) |->
        [buyer_name_raw |-> variants[i], buyer_name_canonical |-> canonical]]

RECURSIVE RowsOfClusters(_, _, _, _)
RowsOfClusters(order, n, uniq, keys) ==
    IF n > Len(order) THEN <<>>
    ELSE ClusterRows(order[n], VariantsOf(uniq, keys, 1, order[n]))
         \o RowsOfClusters(order, n + 1, uniq, keys)

\* build_canonical_map(names): the rows of the returned frame
build_canonical_map(column) ==
    LET uniq == DropNaUnique(column)
        keys == [i \in 1..Len(uniq) |-> ClusterKey(uniq[i])]
    IN  RowsOfClusters(ClusterKeys(keys), 1, uniq, keys)

(***************************************************************************)
(* clean_data.py : build_canonical_map applied to a buyer_name column      *)
(***************************************************************************)
\* buyer names the column may hold
BuyerNames == {
    NaN,
    JChars(<<"D", "e", "p", "a", "r", "t", "m", "e", "n", "t", " ", "f", "o", "r", " ", "T", "r", "a", "n", "s", "p", "o", "r", "t">>),
    JChars(<<"D", "f", "T">>),
    JChars(<<"D", "F", "T">>),
    JChars(<<"A", "c", "m", "e", " ", "C", "o">>),
    JChars(<<"A", "C", "M", "E", " ", "C", "O">>),
    JChars(<<"A", " ", "C">>),
    JChars(<<"É", "c", "o", "l", "e", " ", "&", " ", "S", "t", "r", "a", "ß", "e", " ", "L", "t", "d", ".">>)
}

NoFrame == [k |-> "none"]
Frame(rows) == [k |-> "frame", v |-> rows]

RECURSIVE SeqsUpTo(_, _)
SeqsUpTo(S, n) ==
    IF n = 0 THEN {<<>>}
    ELSE LET shorter == SeqsUpTo(S, n - 1) IN
         shorter \cup {Append(q, x) : q \in {r \in shorter : Len(r) = n - 1}, x \in S}

CanonIdle ==
    /\ names = <<>>
    /\ buyer_map = NoFrame
    /\ prev_map = NoFrame

CanonInit ==
    /\ names \in SeqsUpTo(BuyerNames, MaxNames)
    /\ buyer_map = NoFrame
    /\ prev_map = NoFrame

\* run(), line 85: the map is rebuilt from the whole column on every run
BuildCanonicalMap ==
    /\ buyer_map' = Frame(build_canonical_map(names))
    /\ prev_map' = buyer_map
    /\ UNCHANGED names
    /\ UNCHANGED <<ingest_vars, pqe_vars>>

(***************************************************************************)
(* Numbers (pqe_engine.py).  Python floats are binary64.  A number cell    *)
(* or a parsed text is written as the decimal it prints as: NaN, an        *)
(* infinity, or [k |-> "rat", n, d] in lowest terms with d > 0, standing   *)
(* for the float nearest to n/d.  The arithmetic of lines 107-110 and      *)
(* round() work on the exact binary value [k |-> "fin", s, m, e] =         *)
(* s * m * 2^e with a 53-bit m, held as a multi-limb natural because it    *)
(* exceeds the machine integer.                                            *)
(***************************************************************************)
RECURSIVE Gcd(_, _)
Gcd(a, b) == IF b = 0 THEN a ELSE Gcd(b, a % b)
Abs(x) == IF x < 0 THEN -x ELSE x

Rat(n, d) ==
    LET g == Gcd(Abs(n), d) IN [k |-> "rat", n |-> n \div g, d |-> d \div g]
Zero == Rat(0, 1)
Inf(s) == [k |-> "inf", s |-> s]
IsNaN(x) == x.k = "nan"

\* comparisons of printed numbers; False as soon as an operand is NaN
Lt(a, b) ==
    /\ ~IsNaN(a) /\ ~IsNaN(b)
    /\ IF a.k = "inf" THEN a.s < 0 /\ b # a
       ELSE IF b.k = "inf" THEN b.s > 0
       ELSE a.n * b.d < b.n * a.d
Le(a, b) == ~IsNaN(a) /\ ~IsNaN(b) /\ (a = b \/ Lt(a, b))
Ge(a, b) == Le(b, a)

\* naturals of any size: limbs below LimbBase, least significant first, no
\* zero limb at the top
LimbBase == 2^15

BigNorm(a) ==
    LET used == {i \in 1..Len(a) : a[i] # 0}
    IN  IF used = {} THEN <<>>
        ELSE SubSeq(a, 1, CHOOSE i \in used : \A j \in used : j <= i)

Big(n) ==
    BigNorm(<<n % LimbBase, (n \div LimbBase) % LimbBase,
              n \div (LimbBase * LimbBase)>>)

RECURSIVE BigToInt(_)
BigToInt(a) == IF a = <<>> THEN 0 ELSE Head(a) + LimbBase * BigToInt(Tail(a))

Limb(a, i) == IF i <= Len(a) THEN a[i] ELSE 0

\* -1, 0, 1 as a < b, a = b, a > b: the highest limb that differs decides
BigCmp(a, b) ==
    IF Len(a) < Len(b) THEN -1
    ELSE IF Len(a) > Len(b) THEN 1
    ELSE LET differ == {i \in 1..Len(a) : a[i] # b[i]}
             HighestOf(top) == IF a[top] < b[top] THEN -1 ELSE 1
         IN  IF differ = {} THEN 0
             ELSE HighestOf(CHOOSE i \in differ : \A j \in differ : j <= i)

\* a + b: limb i receives a carry when a lower limb overflows and every limb
\* between the two passes the carry on
BigAdd(a, b) ==
    LET Sum(i) == Limb(a, i) + Limb(b, i)
        Carry(i) ==
            IF \E j \in 1..(i - 1) :
                   /\ Sum(j) >= LimbBase
                   /\ \A k \in (j + 1)..(i - 1) : Sum(k) >= LimbBase - 1
            THEN 1 ELSE 0
        n == IF Len(a) > Len(b) THEN Len(a) ELSE Len(b)
    IN  BigNorm([i \in 1..(n + 1) |-> (Sum(i) + Carry(i)) % LimbBase])

\* a - b for a >= b: limb i lends when a lower limb falls short and every
\* limb between the two passes the borrow on
BigSub(a, b) ==
    LET Borrow(i) ==
            IF \E j \in 1..(i - 1) :
                   /\ a[j] < Limb(b, j)
                   /\ \A k \in (j + 1)..(i - 1) : a[k] <= Limb(b, k)
            THEN 1 ELSE 0
    IN  BigNorm([i \in 1..Len(a) |-> (a[i] - Limb(b, i) - Borrow(i)) % LimbBase])

\* a * k for 0 <= k <= LimbBase: the low halves of the limb products, plus
\* their high halves one limb up
BigMulSmall(a, k) ==
    BigAdd([i \in 1..Len(a) |-> (a[i] * k) % LimbBase],
           <<0>> \o [i \in 1..Len(a) |-> (a[i] * k) \div LimbBase])

RECURSIVE BigMul(_, _)
BigMul(a, b) ==
    IF b = <<>> \/ a = <<>> THEN <<>>
    ELSE BigAdd(BigMulSmall(a, Head(b)), <<0>> \o BigMul(a, Tail(b)))

\* number of bits of a limb
BitLen(n) == CHOOSE k \in 0..15 : n < 2^k /\ (k = 0 \/ n >= 2^(k - 1))
BigBitLen(a) == IF a = <<>> THEN 0 ELSE 15 * (Len(a) - 1) + BitLen(a[Len(a)])

\* a * 2^n
BigShl(a, n) ==
    IF a = <<>> THEN <<>>
    ELSE [i \in 1..(n \div 15) |-> 0] \o BigMulSmall(a, 2^(n % 15))

\* a \div 2^n: the limbs below bit n are dropped, and every limb left takes
\* the low bits of the limb above it
BigShr(a, n) ==
    LET Kept(i) == Limb(a, (n \div 15) + i)
        Cut(k) ==
            BigNorm([i \in 1..(Len(a) - (n \div 15)) |->
                        (Kept(i) \div k) + (Kept(i + 1) % k) * (LimbBase \div k)])
    IN  IF n \div 15 >= Len(a) THEN <<>> ELSE Cut(2^(n % 15))

\* long division by a v whose top limb is at least LimbBase / 2.  Limbs i..1
\* of u are still to be divided, q holds the digits of the quotient found so
\* far and r is the remainder so far with limb i brought down: its digit d
\* is estimated from the top limbs and corrected downwards until d * v fits
BigEstimate(r, v) ==
    LET est == (Limb(r, Len(v) + 1) * LimbBase + Limb(r, Len(v))) \div v[Len(v)]
    IN  IF est >= LimbBase THEN LimbBase - 1 ELSE est

RECURSIVE BigLongDiv(_, _, _, _, _)
RECURSIVE BigDigit(_, _, _, _, _, _)
BigDigit(u, v, i, r, q, d) ==
    IF BigCmp(BigMulSmall(v, d), r) > 0 THEN BigDigit(u, v, i, r, q, d - 1)
    ELSE IF i = 1
    THEN [q |-> BigNorm(<<d>> \o q), exact |-> BigSub(r, BigMulSmall(v, d)) = <<>>]
    ELSE BigLongDiv(u, v, i - 1,
                    BigNorm(<<u[i - 1]>> \o BigSub(r, BigMulSmall(v, d))),
                    <<d>> \o q)
BigLongDiv(u, v, i, r, q) == BigDigit(u, v, i, r, q, BigEstimate(r, v))

\* quotient of u by v > 0, and whether the division is exact.  Both are
\* shifted until the top limb of v is at least LimbBase / 2; the top limbs
\* of u, as many as v has, are the first remainder
BigDivMod(u, v) ==
    LET Shifted(un, vn) ==
            IF Len(un) < Len(vn) THEN [q |-> <<>>, exact |-> un = <<>>]
            ELSE BigLongDiv(un, vn, Len(un) - Len(vn) + 1,
                            SubSeq(un, Len(un) - Len(vn) + 1, Len(un)), <<>>)
        Shift(n) == Shifted(BigShl(u, n), BigShl(v, n))
    IN  IF v = <<1>> THEN [q |-> u, exact |-> TRUE]
        ELSE Shift(15 - BitLen(v[Len(v)]))

\* n rounded to the nearest multiple of 2^drop, over 2^drop: ties go to the
\* even quotient, and `exact` tells that nothing was cut off below n
BigRoundShr(n, drop, exact) ==
    LET Rounded(q, c) ==
            IF c > 0 \/ (c = 0 /\ (~exact \/ Limb(q, 1) % 2 = 1))
            THEN BigAdd(q, <<1>>) ELSE q
        Compared(q) ==
            Rounded(q, BigCmp(BigSub(n, BigShl(q, drop)), BigShl(<<1>>, drop - 1)))
    IN  Compared(BigShr(n, drop))

\* binary64 values
FZero == [k |-> "fin", s |-> 1, m |-> <<>>, e |-> 0]
Fin(s, m, e) == [k |-> "fin", s |-> s, m |-> m, e |-> e]

\* the float nearest to s * (num / den) * 2^e2 for naturals num, den > 0:
\* round to nearest, ties to even (the range of exponents is not limited).
\* num is shifted until the quotient has 55 bits or more, and the quotient
\* is cut to 53
RoundToFloat(s, num, den, e2) ==
    LET Packed(m, e) ==
            IF BigBitLen(m) = 54 THEN Fin(s, BigShr(m, 1), e + 1)
            ELSE Fin(s, m, e)
        Cut(dm, shift, drop) ==
            Packed(BigRoundShr(dm.q, drop, dm.exact), e2 - shift + drop)
        Quotient(dm, shift) == Cut(dm, shift, BigBitLen(dm.q) - 53)
        Shifted(shift) == Quotient(BigDivMod(BigShl(num, shift), den), shift)
    IN  IF 55 + BigBitLen(den) > BigBitLen(num)
        THEN Shifted(55 + BigBitLen(den) - BigBitLen(num)) ELSE Shifted(0)

\* the float a printed number stands for
ToFloat(x) ==
    IF x.k # "rat" THEN x
    ELSE IF x.n = 0 THEN FZero
    ELSE RoundToFloat(IF x.n < 0 THEN -1 ELSE 1, Big(Abs(x.n)), Big(x.d), 0)

IsZero(a) == a.k = "fin" /\ a.m = <<>>

\* a * b
FMul(a, b) ==
    IF IsNaN(a) \/ IsNaN(b) THEN NaN
    ELSE IF a.k = "inf" \/ b.k = "inf"
    THEN (IF IsZero(a) \/ IsZero(b) THEN NaN ELSE Inf(a.s * b.s))
    ELSE IF IsZero(a) \/ IsZero(b) THEN FZero
    ELSE RoundToFloat(a.s * b.s, BigMul(a.m, b.m), <<1>>, a.e + b.e)

\* a / b for b other than zero
FDiv(a, b) ==
    IF IsNaN(a) \/ IsNaN(b) THEN NaN
    ELSE IF a.k = "inf" THEN (IF b.k = "inf" THEN NaN ELSE Inf(a.s * b.s))
    ELSE IF b.k = "inf" \/ IsZero(a) THEN FZero
    ELSE RoundToFloat(a.s * b.s, a.m, b.m, a.e - b.e)

\* a >= b for a float a that is not negative and a printed number b > 0
FGe(a, b) ==
    LET AtLeastFloat(f) ==
            /\ ~IsNaN(a)
            /\ \/ a.k = "inf"
               \/ /\ ~IsZero(a)
                  /\ \/ a.e > f.e
                     \/ a.e = f.e /\ BigCmp(a.m, f.m) >= 0
    IN  AtLeastFloat(ToFloat(b))

\* round(x, 2): the hundredth nearest to the binary value of x, ties to the
\* even hundredth; NaN and the infinities are returned as they are
Round2(x) ==
    IF x.k # "fin" THEN x
    ELSE IF IsZero(x) THEN Zero
    ELSE LET n == BigMulSmall(x.m, 100) IN
         IF x.e >= 0 THEN Rat(x.s * BigToInt(BigShl(n, x.e)), 100)
         ELSE Rat(x.s * BigToInt(BigRoundShr(n, -x.e, TRUE)), 100)

\* value of a decimal digit: its place in its run of ten
DigitVal(c) ==
    LET n == ord(c)
    IN (n - (CHOOSE r \in DecimalRanges : r[1] <= n /\ n <= r[2])[1]) % 10

RECURSIVE DigitsToInt(_)
DigitsToInt(s) ==
    IF s = <<>> THEN 0
    ELSE DigitsToInt(SubSeq(s, 1, Len(s) - 1)) * 10 + DigitVal(s[Len(s)])

RECURSIVE Pow10(_)
Pow10(n) == IF n = 0 THEN 1 ELSE 10 * Pow10(n - 1)

ValueError == [k |-> "error"]
IsDigits(s) == s # <<>> /\ \A i \in 1..Len(s) : s[i] \in DecimalDigits

\* float(s) for a text of digits and dots: digits around at most one dot
ParseDecimal(s) ==
    LET dots == {i \in 1..Len(s) : s[i] = "."} IN
    IF Cardinality(dots) > 1 \/ Len(s) - Cardinality(dots) = 0
    THEN ValueError
    ELSE IF dots = {} THEN Rat(DigitsToInt(s), 1)
    ELSE LET p == CHOOSE i \in dots : TRUE IN
         Rat(DigitsToInt(SubSeq(s, 1, p - 1) \o SubSeq(s, p + 1, Len(s))),
             Pow10(Len(s) - p))

\* the blanks float() strips: those of str.strip() but the controls 1C-1F
FloatBlank == Whitespace \ {"U+001C", "U+001D", "U+001E", "U+001F"}

RECURSIVE StripBlank(_)
StripBlank(s) ==
    IF s # <<>> /\ Head(s) \in FloatBlank THEN StripBlank(Tail(s))
    ELSE IF s # <<>> /\ s[Len(s)] \in FloatBlank
    THEN StripBlank(SubSeq(s, 1, Len(s) - 1))
    ELSE s

\* an underscore of a numeric literal stands between two digits
UnderscoresOk(s) ==
    \A i \in 1..Len(s) :
        s[i] = "_" => /\ i > 1 /\ s[i - 1] \in DecimalDigits
                      /\ i < Len(s) /\ s[i + 1] \in DecimalDigits

\* the literal after its sign: inf, infinity, nan in any case, or digits
\* with an optional dot and an optional exponent
ParseUnsigned(s) ==
    LET low == Lower(s)
        plain == SelectSeq(s, LAMBDA c : c # "_")
        es == {i \in 1..Len(plain) : plain[i] \in {"e", "E"}}
        cut == IF es = {} THEN Len(plain) + 1
               ELSE CHOOSE i \in es : \A j \in es : i <= j
        mant == SubSeq(plain, 1, cut - 1)
        expo == SubSeq(plain, cut + 1, Len(plain))
        signed == expo # <<>> /\ Head(expo) \in {"+", "-"}
        edigits == IF signed THEN Tail(expo) ELSE expo
        m == ParseDecimal(mant)
    IN  IF low \in {<<"i", "n", "f">>, <<"i", "n", "f", "i", "n", "i", "t", "y">>}
        THEN Inf(1)
        ELSE IF low = <<"n", "a", "n">> THEN NaN
        ELSE IF \/ ~UnderscoresOk(s)
                \/ \E i \in 1..Len(mant) : mant[i] \notin DecimalDigits \cup {"."}
                \/ m = ValueError
                \/ es # {} /\ ~IsDigits(edigits)
        THEN ValueError
        ELSE IF es = {} THEN m
        ELSE IF signed /\ Head(expo) = "-"
        THEN Rat(m.n, m.d * Pow10(DigitsToInt(edigits)))
        ELSE Rat(m.n * Pow10(DigitsToInt(edigits)), m.d)

\* float(s) of a text: blanks stripped, an optional sign, the literal
ParseFloat(s) ==
    LET t == StripBlank(s)
        neg == t # <<>> /\ Head(t) = "-"
        body == IF t # <<>> /\ Head(t) \in {"+", "-"} THEN Tail(t) ELSE t
        u == ParseUnsigned(body)
    IN  IF ~neg \/ u.k \in {"error", "nan"} THEN u
        ELSE IF u.k = "inf" THEN Inf(-1)
        ELSE Rat(-u.n, u.d)

\* re.sub(r"[^\d.]", "", s)
RECURSIVE KeepNumeric(_)
KeepNumeric(s) ==
    IF s = <<>> THEN <<>>
    ELSE (IF Head(s) \in DecimalDigits \cup {"."} THEN <<Head(s)>> ELSE <<>>)
         \o KeepNumeric(Tail(s))

(***************************************************************************)
(* pqe_engine.py                                                           *)
(***************************************************************************)
MIN_SPEND_GBP == 5000
MAT_GEN == <<"M", "A", "T", "_", "G", "E", "N">>
NanText == <<"n", "a", "n">>
InfText == <<"i", "n", "f">>

\* digits after the point of r/d, 0 <= r < d, for a terminating expansion
RECURSIVE FracDigits(_, _)
FracDigits(r, d) ==
    IF r = 0 THEN <<>>
    ELSE <<AsciiDigits[((r * 10) \div d) + 1]>> \o FracDigits((r * 10) % d, d)

\* the k with 1 <= a * 10^k < 10 for a rational 0 < a < 1
RECURSIVE LeadingPlace(_, _, _)
LeadingPlace(n, d, k) == IF n >= d THEN k ELSE LeadingPlace(n * 10, d, k + 1)

\* str(x) of a finite float below 1e16 with a short decimal expansion:
\* sign, integer part, point, fraction ("0" when there is none); below
\* 0.0001 the digits, "e-" and the exponent in two digits at least
FloatText(x) ==
    LET a == Abs(x.n)
        k == LeadingPlace(a, x.d, 0)
        lead == a * Pow10(k)
    IN  (IF x.n < 0 THEN <<"-">> ELSE <<>>)
        \o (IF a = 0 \/ a >= (x.d + 9999) \div 10000
            THEN NatDigits(a \div x.d) \o <<".">>
                 \o (IF a % x.d = 0 THEN <<"0">> ELSE FracDigits(a % x.d, x.d))
            ELSE NatDigits(lead \div x.d)
                 \o (IF lead % x.d = 0 THEN <<>>
                     ELSE <<".">> \o FracDigits(lead % x.d, x.d))
                 \o <<"e", "-">>
                 \o (IF k < 10 THEN <<"0">> ELSE <<>>) \o NatDigits(k))

\* str(cell) of a text, float or empty (NaN) cell
StrOf(cell) ==
    IF cell.k = "chars" THEN cell.v
    ELSE IF cell.k = "rat" THEN FloatText(cell)
    ELSE IF cell.k = "inf"
    THEN (IF cell.s < 0 THEN <<"-">> ELSE <<>>) \o InfText
    ELSE NanText

\* mutant of clean_currency: the text is cut at the first character that
\* is neither a digit nor a point
clean_currency_CutAtSeparator(val) ==
    LET text == StrOf(val)
        stops == {i \in 1..Len(text) :
                     text[i] \notin DecimalDigits \cup {"."} /\
                     \E j \in 1..(i - 1) : text[j] \in DecimalDigits}
        cut == IF stops = {} THEN text
               ELSE SubSeq(text, 1, (CHOOSE i \in stops : \A j \in stops : i <= j) - 1)
        clean_str == KeepNumeric(cut)
    IN  IF clean_str = <<>> THEN Zero
        ELSE IF ParseDecimal(clean_str).k = "error" THEN Zero
        ELSE ParseDecimal(clean_str)

\* clean_currency(val): every character of str(val) other than digits and
\* points is removed and the rest is parsed; 0.0 when nothing is left or
\* float() raises
clean_currency(val) ==
    LET clean_str == KeepNumeric(StrOf(val)) IN
    IF clean_str = <<>> THEN Zero
    ELSE IF ParseDecimal(clean_str).k = "error" THEN Zero
    ELSE ParseDecimal(clean_str)

\* str.split(sep) for a one-character sep
RECURSIVE SplitOn(_, _, _)
SplitOn(s, sep, part) ==
    IF s = <<>> THEN <<part>>
    ELSE IF Head(s) = sep THEN <<part>> \o SplitOn(Tail(s), sep, <<>>)
    ELSE SplitOn(Tail(s), sep, Append(part, Head(s)))

\* k in text
Contains(text, k) ==
    \E i \in 1..(Len(text) - Len(k) + 1) : SubSeq(text, i, i + Len(k) - 1) = k

\* line 40: the stripped, lower-cased, non-empty keywords of a row
Keywords(row) ==
    LET parts == SplitOn(StrOf(row.keywords), "|", <<>>) IN
    {Lower(Strip(parts[i])) : i \in {j \in 1..Len(parts) : Strip(parts[j]) # <<>>}}

\* line 38: the row is passed over by the scan
SkippedAsGeneric(row) == Upper(StrOf(row.material_id)) = MAT_GEN
\* line 44: the row is found by the fallback lookup
IsGenericRow(row) == row.material_id.k = "chars" /\ row.material_id.v = MAT_GEN

\* line 41: a keyword of the row occurs in the text
RowMatches(row, text) == \E k \in Keywords(row) : k # <<>> /\ Contains(text, k)

NoMaterial == [k |-> "none"]
Material(row) == [k |-> "dict", v |-> row]

\* detect_material(text, ref_df); text is the formatted string
detect_material(text, ref_df) ==
    LET lowered == Lower(text)
        hits == {i \in 1..Len(ref_df) :
                    ~SkippedAsGeneric(ref_df[i]) /\ RowMatches(ref_df[i], lowered)}
        gen == {i \in 1..Len(ref_df) : IsGenericRow(ref_df[i])}
    IN  IF hits # {}
        THEN Material(ref_df[CHOOSE i \in hits : \A j \in hits : i <= j])
        ELSE IF gen # {}
        THEN Material(ref_df[CHOOSE i \in gen : \A j \in gen : i <= j])
        ELSE NoMaterial

\* lines 71-72: cell or "".  A falsy cell (an empty text, the float 0.0)
\* gives the empty text; an empty (NaN) cell is truthy and stays
OrEmpty(cell) ==
    IF (cell.k = "chars" /\ cell.v = <<>>) \/ (cell.k = "rat" /\ cell.n = 0)
    THEN JChars(<<>>)
    ELSE cell

\* lines 71-73: f"{title} {description}"; an empty cell prints as "nan"
FullText(row) ==
    StrOf(OrEmpty(row.title)) \o <<" ">> \o StrOf(OrEmpty(row.description))

\* lines 90-97: float(cell or 0), 0.0 when float() raises; an empty (NaN)
\* cell is truthy and stays NaN
SafeFloat(cell) ==
    IF cell.k # "chars" THEN cell
    ELSE IF cell.v = <<>> \/ ParseFloat(cell.v) = ValueError THEN Zero
    ELSE ParseFloat(cell.v)

\* lines 112-119
RiskCategory(est_co2e) ==
    IF FGe(est_co2e, Rat(1000, 1)) THEN "CRITICAL"
    ELSE IF FGe(est_co2e, Rat(250, 1)) THEN "HIGH"
    ELSE IF FGe(est_co2e, Rat(50, 1)) THEN "MEDIUM"
    ELSE "LOW"

\* the keys a result dict may add to the contract's columns
Unset == [ref_price |-> JAbsent, ref_factor |-> JAbsent,
          detected_material_id |-> JAbsent, detected_material_name |-> JAbsent,
          applied_price_rate |-> JAbsent, applied_carbon_factor |-> JAbsent,
          est_material_tonnes |-> JAbsent, est_co2e_tonnes |-> JAbsent,
          co2e_range_low |-> JAbsent, co2e_range_high |-> JAbsent,
          risk_category |-> JAbsent, data_source_ref |-> JAbsent]

Skipped(row, status) == [row |-> row, pqe_status |-> status] @@ Unset

\* price and factor are not both usable (line 99)
InvalidRef(price, factor) == Le(price, Zero) \/ Le(factor, Zero)

\* mutant of Calculated: the carbon factor is taken per kilogram, the
\* division by 1000 is left out
Calculated_NoUnitConversion(row, spend_gbp, mat, price, factor) ==
    LET Record(est_tonnes, est_co2e) ==
            [row |-> row,
             pqe_status |-> "CALCULATED",
             ref_price |-> JAbsent,
             ref_factor |-> JAbsent,
             detected_material_id |-> mat.material_id,
             detected_material_name |-> mat.material_name,
             applied_price_rate |-> price,
             applied_carbon_factor |-> factor,
             est_material_tonnes |-> Round2(est_tonnes),
             est_co2e_tonnes |-> Round2(est_co2e),
             co2e_range_low |-> Round2(FMul(est_co2e, ToFloat(Rat(3, 4)))),
             co2e_range_high |-> Round2(FMul(est_co2e, ToFloat(Rat(5, 4)))),
             risk_category |-> JStr(RiskCategory(est_co2e)),
             data_source_ref |-> mat.ice_source_ref]
        Carbon(est_tonnes) ==
            Record(est_tonnes, FMul(est_tonnes, ToFloat(factor)))
    IN  Carbon(FDiv(ToFloat(spend_gbp), ToFloat(price)))

\* lines 107-135: the CALCULATED record
Calculated(row, spend_gbp, mat, price, factor) ==
    LET Record(est_tonnes, est_co2e) ==
            [row |-> row,
             pqe_status |-> "CALCULATED",
             ref_price |-> JAbsent,
             ref_factor |-> JAbsent,
             detected_material_id |-> mat.material_id,
             detected_material_name |-> mat.material_name,
             applied_price_rate |-> price,
             applied_carbon_factor |-> factor,
             est_material_tonnes |-> Round2(est_tonnes),
             est_co2e_tonnes |-> Round2(est_co2e),
             co2e_range_low |-> Round2(FMul(est_co2e, ToFloat(Rat(3, 4)))),
             co2e_range_high |-> Round2(FMul(est_co2e, ToFloat(Rat(5, 4)))),
             risk_category |-> JStr(RiskCategory(est_co2e)),
             data_source_ref |-> mat.ice_source_ref]
        Carbon(est_tonnes) ==
            Record(est_tonnes, FDiv(FMul(est_tonnes, ToFloat(factor)),
                                    ToFloat(Rat(1000, 1))))
    IN  Carbon(FDiv(ToFloat(spend_gbp), ToFloat(price)))

\* lines 70-135: the result dict of one contract row
ResultFor(row, ref_df) ==
    LET spend_gbp == clean_currency(row.value_amount)
        mat == detect_material(FullText(row), ref_df)
        price == SafeFloat(mat.v.composite_price_gbp_per_tonne)
        factor == SafeFloat(mat.v.carbon_factor_kgco2e_per_tonne)
    IN  IF Lt(spend_gbp, Rat(MIN_SPEND_GBP, 1))
        THEN Skipped(row, "SKIPPED_LOW_VALUE")
        ELSE IF mat.k = "none" THEN Skipped(row, "SKIPPED_NO_REF")
        ELSE IF InvalidRef(price, factor)
        THEN [Skipped(row, "SKIPPED_INVALID_REF") EXCEPT
                 !.ref_price = mat.v.composite_price_gbp_per_tonne,
                 !.ref_factor = mat.v.carbon_factor_kgco2e_per_tonne]
        ELSE Calculated(row, spend_gbp, mat.v, price, factor)

\* line 137: pd.DataFrame(results).  A key that some result lacks is an
\* empty (NaN) cell of its column; a key no result has is no column at all
FrameCell(res, i, f) ==
    IF res[i][f].k # "absent" THEN res[i][f]
    ELSE IF \E j \in 1..Len(res) : res[j][f].k # "absent" THEN NaN
    ELSE JAbsent
DataFrame(res) ==
    [i \in 1..Len(res) |->
        [f \in DOMAIN res[i] |->
            IF f \in DOMAIN Unset THEN FrameCell(res, i, f) ELSE res[i][f]]]

\* line 140: est_co2e_tonnes.fillna(-1)
SortHelper(r) ==
    IF r.est_co2e_tonnes.k \in {"rat", "inf"} THEN r.est_co2e_tonnes
    ELSE Rat(-1, 1)

\* mutant of SortDescending: the frame is left in input order
SortDescending_InputOrder(rows) == rows

\* line 141: sort_values(by="sort_helper", ascending=False); rows with equal
\* keys keep their order
RECURSIVE SortDescending(_)
SortDescending(rows) ==
    IF rows = <<>> THEN <<>>
    ELSE LET init == SortDescending(SubSeq(rows, 1, Len(rows) - 1))
             x == rows[Len(rows)]
             ahead == Cardinality({i \in 1..Len(init) :
                                      Ge(SortHelper(init[i]), SortHelper(x))})
         IN  SubSeq(init, 1, ahead) \o <<x>> \o SubSeq(init, ahead + 1, Len(init))

\* lines 137-144: the frame written to OUTPUT_FILENAME
OutputFrame(res) ==
    IF \E i \in 1..Len(res) : res[i].est_co2e_tonnes.k # "absent"
    THEN SortDescending(DataFrame(res))
    ELSE DataFrame(res)

(***************************************************************************)
(* The tables the risk engine may be given                                 *)
(***************************************************************************)
Contract(ocid, title, description, value_amount) ==
    [ocid |-> ocid, title |-> title, description |-> description,
     value_amount |-> value_amount]
MaterialRow(id, name, keywords, price, factor) ==
    [material_id |-> id, material_name |-> name, keywords |-> keywords,
     composite_price_gbp_per_tonne |-> price,
     carbon_factor_kgco2e_per_tonne |-> factor,
     ice_source_ref |-> JStr("ICE v3")]

KSteelBridge == Contract("c1", JChars(<<"S", "t", "e", "e", "l", " ", "B", "r", "i", "d", "g", "e">>), NaN, Rat(100000, 1))
KRoadLow == Contract("c2", JChars(<<"R", "o", "a", "d">>), JChars(<<"r", "e", "s", "u", "r", "f", "a", "c", "i", "n", "g">>),
                     JChars(<<"G", "B", "P", " ", "4", ",", "9", "9", "9", ".", "5", "0">>))
KRoadworks == Contract("c3", JChars(<<"R", "o", "a", "d", "w", "o", "r", "k", "s">>), JChars(<<"m", "a", "i", "n", "t", "e", "n", "a", "n", "c", "e">>),
                       JChars(<<"5", "0", "0", "0">>))
KDrainage == Contract("c4", JChars(<<"D", "r", "a", "i", "n", "a", "g", "e">>), JChars(<<"c", "u", "l", "v", "e", "r", "t">>),
                      Rat(2000000, 1))
KBadAmount == Contract("c5", JChars(<<"S", "t", "e", "e", "l">>), NaN, JChars(<<"1", ".", "2", ".", "3">>))
KSteelEdge == Contract("c6", JChars(<<"S", "t", "e", "e", "l">>), NaN, Rat(24998, 1))
\* 5350 at 2000 per tonne is 2.675 tonnes, a float just below the half
KKerbs == Contract("c7", JChars(<<"K", "e", "r", "b", "s">>), NaN, Rat(5350, 1))
\* 6000 in Arabic-Indic digits
KTimber == Contract("c8", JChars(<<"T", "i", "m", "b", "e", "r">>), NaN,
                    JChars(<<"U+0666", "U+0660", "U+0660", "U+0660">>))
KPipes == Contract("c9", JChars(<<"P", "i", "p", "e", "s">>), NaN, JChars(<<"7", ",", "0", "0", "0">>))
\* a float cell that prints in exponent form, "1e-05"
KTiny == Contract("c10", JChars(<<"P", "i", "p", "e">>), NaN, Rat(1, 100000))
\* a title cell that holds the float 0.0
KZeroTitle == Contract("c11", Rat(0, 1), JChars(<<"d", "r", "a", "i", "n">>), Rat(9000, 1))

\* contract tables (rows of the cleaned input frame)
ContractTables == {
    <<>>,
    <<KSteelBridge>>,
    <<KRoadLow, KRoadworks>>,
    <<KRoadworks, KSteelBridge, KDrainage>>,
    <<KBadAmount, KDrainage, KSteelBridge>>,
    <<KRoadLow, KSteelEdge, KSteelBridge>>,
    <<KKerbs, KTimber, KPipes>>,
    <<KTiny, KPipes>>,
    <<KZeroTitle>>
}

\* rows a material reference table may hold
MaterialRows == {
    MaterialRow(JChars(<<"M", "A", "T", "_", "S", "T", "E", "E", "L">>), JStr("Steel"),
                JChars(<<"R", "e", "b", "a", "r", " ", "|", " ", "S", "T", "E", "E", "L">>), Rat(50, 1), Rat(100, 1)),
    MaterialRow(JChars(<<"M", "A", "T", "_", "A", "S", "P", "H">>), JStr("Asphalt"),
                JChars(<<"a", "s", "p", "h", "a", "l", "t", "|", "r", "o", "a", "d">>), Rat(0, 1), Rat(55, 1)),
    MaterialRow(JChars(<<"M", "A", "T", "_", "C", "O", "N", "C">>), JStr("Concrete"),
                JChars(<<"b", "r", "i", "d", "g", "e", "|", "c", "u", "l", "v", "e", "r", "t">>), NaN, Rat(120, 1)),
    MaterialRow(JChars(<<"M", "A", "T", "_", "A", "G", "G">>), JStr("Aggregate"),
                NaN, JChars(<<"T", "B", "C">>), Rat(-5, 1)),
    MaterialRow(JChars(<<"M", "A", "T", "_", "G", "E", "N">>), JStr("General"),
                JChars(<<"s", "t", "e", "e", "l">>), JChars(<<"8", "0", ".", "5">>), Rat(60, 1)),
    MaterialRow(JChars(<<"m", "a", "t", "_", "g", "e", "n">>), JStr("General"),
                JChars(<<"r", "o", "a", "d", "|", "s", "t", "e", "e", "l">>), Rat(100, 1), Rat(250, 1)),
    MaterialRow(JChars(<<"M", "A", "T", "_", "K", "E", "R", "B">>), JStr("Kerb"),
                JChars(<<"k", "e", "r", "b">>), JChars(<<"2", "e", "3">>), JChars(<<" ", "1", "_", "0", "0", " ">>)),
    MaterialRow(JChars(<<"M", "A", "T", "_", "T", "I", "M", "B", "E", "R">>), JStr("Timber"),
                JChars(<<"t", "i", "m", "b", "e", "r">>), JChars(<<"N", "a", "N">>), JChars(<<"+", "7">>)),
    MaterialRow(JChars(<<"M", "A", "T", "_", "P", "I", "P", "E">>), JStr("Pipe"),
                JChars(<<"p", "i", "p", "e", "|", "0", ".", "0">>), Rat(10, 1), JChars(<<"i", "n", "f">>))
}

PqeIdle ==
    /\ contracts = <<>>
    /\ materials = <<>>
    /\ results = <<>>
    /\ out_frame = NoFrame
    /\ mats = <<>>

PqeInit ==
    /\ contracts \in ContractTables
    /\ materials \in SeqsUpTo(MaterialRows, MaxMaterials)
    /\ results = <<>>
    /\ out_frame = NoFrame
    /\ mats = <<>>

\* line 82: the call of detect_material made for a row, if any
DetectCall(row, ref_df) ==
    IF Lt(clean_currency(row.value_amount), Rat(MIN_SPEND_GBP, 1))
    THEN [k |-> "nocall"]
    ELSE detect_material(FullText(row), ref_df)

\* lines 70-135: one pass of the loop over the contract rows
ProcessContract ==
    /\ out_frame = NoFrame
    /\ Len(results) < Len(contracts)
    /\ results' = Append(results, ResultFor(contracts[Len(results) + 1], materials))
    /\ mats' = Append(mats, DetectCall(contracts[Len(results) + 1], materials))
    /\ UNCHANGED <<contracts, materials, out_frame>>
    /\ UNCHANGED <<ingest_vars, canon_vars>>

\* lines 137-144: the loop is over, the frame is sorted and written
\* (the console preview of lines 146-150 follows the write and changes no file)
SaveResults ==
    /\ out_frame = NoFrame
    /\ Len(results) = Len(contracts)
    /\ out_frame' = Frame(OutputFrame(results))
    /\ UNCHANGED <<contracts, materials, results, mats>>
    /\ UNCHANGED <<ingest_vars, canon_vars>>

(***************************************************************************)
(* Specifications                                                          *)
(***************************************************************************)
IngestIdle ==
    /\ cursor_file = NoFile
    /\ output_file = NoFile
    /\ pc = "START"
    /\ end_reason = "none"
    /\ all_contracts = <<>>
    /\ seen_ocids = {}
    /\ next_url = JNone
    /\ first_page = TRUE
    /\ page_count = 0
    /\ attempt = 0
    /\ run = 0
    /\ requests = 0
    /\ last_request = [url |-> <<>>, params |-> NoParams, page |-> 0]
    /\ last_link = JNone
    /\ resumed = FALSE
    /\ repeat_dropped = FALSE
    /\ prev_run = [state |-> "START", reason |-> "none"]
    /\ start_output = NoFile
    /\ last_response = NoResponse
    /\ cursor_reads = 0
    /\ cursor_writes = 0

\* the ingestion runs
Init == IngestInit /\ CanonIdle /\ PqeIdle
Next == StartRun \/ RequestFails \/ RequestSucceeds
Spec == Init /\ [][Next]_vars

\* the canonicalizer, on every buyer_name column of up to MaxNames rows
InitCanon == IngestIdle /\ CanonInit /\ PqeIdle
NextCanon == BuildCanonicalMap
SpecCanon == InitCanon /\ [][NextCanon]_vars

\* the risk engine, on every contract table and reference table
InitPqe == IngestIdle /\ CanonIdle /\ PqeInit
NextPqe == ProcessContract \/ SaveResults
SpecPqe == InitPqe /\ [][NextPqe]_vars

(***************************************************************************)
(* Properties of the ingestion run                                         *)
(***************************************************************************)
NoDupOcids(rows) ==
    \A i, j \in 1..Len(rows) : i # j => rows[i].ocid # rows[j].ocid

\* a notice whose identifier is among the stored ones
Repeated(release, seen) ==
    /\ release.k = "dict"
    /\ release.v.ocid.k = "str"
    /\ release.v.ocid.v \in seen

\* C1: every contract identifier appears exactly once in the accumulated
\* list and in the written output, whatever pages arrived so far, and for
\* every list of notices that may arrive next: a notice whose identifier is
\* already stored is dropped without an exception, whatever else it carries.
C1_DedupInvariant ==
    /\ NoDupOcids(all_contracts)
    /\ {all_contracts[i].ocid : i \in 1..Len(all_contracts)} = seen_ocids
    /\ output_file.k = "file" => NoDupOcids(output_file.v)
    /\ pc = "FETCHING" =>
         \A l \in ReleaseLists :
            LET res == ProcessReleases(l, 1, all_contracts, seen_ocids, FALSE)
            IN  /\ NoDupOcids(res.all_contracts)
                /\ \A i \in 1..Len(l) :
                      Repeated(l[i], seen_ocids)
                         => ReleaseOutcome(l[i], seen_ocids) = "repeat"

\* C1 witness: a run that dropped a repeated identifier ended DONE and wrote
\* two distinct contracts
C1_Witness ==
    /\ pc = "DONE"
    /\ repeat_dropped
    /\ output_file.k = "file"
    /\ Len(output_file.v) = 2
    /\ page_count = 2

\* the request a run must issue first, given the cursor file it found
FirstRequestFor(file) ==
    IF file.k = "nofile"
    THEN [url |-> API_URL, params |-> InitialParams]
    ELSE [url |-> Strip(UniversalNewlines(file.v)), params |-> NoParams]

\* C2: resumability.  Every requests.get call of the first iteration goes to
\* the persisted cursor token without parameters when a cursor file exists
\* and to the base URL with limit/publishedFrom/publishedTo when none does;
\* every call of a later iteration goes to the most recent next link.  The
\* token is the text of the cursor file as load_last_cursor reads it: line
\* ends translated to "\n", blanks at both ends stripped.
C2_Resumability ==
    [][requests' = requests + 1 =>
         /\ last_request'.page = page_count
         /\ IF page_count = 1
            THEN /\ last_request'.url = FirstRequestFor(cursor_file).url
                 /\ last_request'.params = FirstRequestFor(cursor_file).params
            ELSE /\ last_link.k = "chars"
                 /\ last_request'.url = last_link.v
                 /\ last_request'.params = NoParams]_vars

\* C2 witness: a run resumed from a cursor file that holds the token
\* between blanks has issued its first request against the token, without
\* parameters
C2_Witness ==
    /\ resumed
    /\ pc = "FETCHING"
    /\ page_count = 1
    /\ attempt = 1
    /\ cursor_file.k = "file"
    /\ cursor_file.v # LinkA
    /\ Strip(cursor_file.v) = LinkA
    /\ last_request = [url |-> LinkA, params |-> NoParams, page |-> 1]

\* C3: retry exhaustion.  safe_get never makes more than MAX_RETRIES
\* attempts; it raises exactly when MAX_RETRIES attempts have failed, and
\* the run is then ABORTED; a run that has ended issues no further request;
\* an attempt that returns a response ends the call (the failure count of
\* the call restarts, one request was issued for it).
C3_RetryExhaustion ==
    [][/\ attempt' <= MAX_RETRIES
       /\ (pc' = "ABORTED" /\ end_reason' = "retries")
             => (attempt' = MAX_RETRIES /\ requests' >= MAX_RETRIES)
       /\ (pc = "FETCHING" /\ attempt' = attempt + 1)
             => /\ requests' = requests + 1
                /\ (attempt' = MAX_RETRIES) = (pc' = "ABORTED")
                /\ attempt' < MAX_RETRIES => pc' = "FETCHING"
       /\ (pc = "FETCHING" /\ attempt' = 0)
             => requests' = requests + 1
       /\ (pc \in Terminal /\ run' = run) => requests' = requests]_vars

\* C3 witness: a run aborted by the fifth transport failure of one fetch,
\* after an earlier fetch of the same run had succeeded on a retry
C3_Witness ==
    /\ pc = "ABORTED"
    /\ end_reason = "retries"
    /\ attempt = MAX_RETRIES
    /\ page_count = 2
    /\ requests = MAX_RETRIES + 2

\* C6 (as claimed): a run restarted after DONE/no-next-link with the cursor
\* file in place stores no record and leaves the written output unchanged.
C6_RestartIsNoOp ==
    (/\ prev_run = [state |-> "DONE", reason |-> "no_next"]
     /\ resumed)
        => /\ all_contracts = <<>>
           /\ output_file = start_output

\* rows of a file, none when the file does not exist
RowsOf(file) == IF file.k = "file" THEN file.v ELSE <<>>
\* every row of the list is a row of the file
Written(rows, file) ==
    \A i \in 1..Len(rows) :
        \E j \in 1..Len(RowsOf(file)) : RowsOf(file)[j] = rows[i]
IsPrefix(a, b) == Len(a) <= Len(b) /\ SubSeq(b, 1, Len(a)) = a
\* this step, the current run issued a requests.get call
AttemptMade == requests' = requests + 1 /\ run' = run
\* this step, the call returned a response
ResponseReceived == AttemptMade /\ last_response'.k = "response"

\* C11: ABORTED keeps partial results.  When an exception leaves the loop
\* (the last retry of a fetch failed, the response could not be decoded, or
\* a record could not be processed) the run is ABORTED, every record
\* accumulated before it is kept and is in the written output, and the run
\* issues no further request.
C11_AbortedKeepsPartial ==
    [][/\ AttemptMade =>
            LET exhausted == last_response'.k = "none" /\ attempt' = MAX_RETRIES
                undecodable == /\ last_response'.k = "response"
                               /\ last_response'.status = 200
                               /\ ~last_response'.json
            IN  (exhausted \/ undecodable \/ end_reason' = "exception")
                => /\ pc' = "ABORTED"
                   /\ IsPrefix(all_contracts, all_contracts')
                   /\ Written(all_contracts', output_file')
       /\ (pc = "ABORTED" /\ run' = run) => requests' = requests]_vars

\* C11 witness: the second page raised on a notice whose party is a text
\* after three of its records had been accepted; the four accepted records
\* are in the output
C11_Witness ==
    /\ pc = "ABORTED"
    /\ end_reason = "exception"
    /\ page_count = 2
    /\ last_response.k = "response" /\ last_response.json
    /\ Len(all_contracts) = 4
    /\ all_contracts[4].ocid = "ocds-6"
    /\ output_file = File(all_contracts)

\* C12: a response with a status other than 200 is not retried.  The run
\* is STOPPED and issues no further request, the cursor file is as it was
\* before the request, and the records of earlier pages are in the output.
C12_BadStatusStops ==
    [][/\ (ResponseReceived /\ last_response'.status # 200)
            => /\ pc' = "STOPPED"
               /\ cursor_file' = cursor_file
               /\ all_contracts' = all_contracts
               /\ Written(all_contracts, output_file')
       /\ (pc = "STOPPED" /\ run' = run) => requests' = requests]_vars

\* C12 witness: the second page came back with status 500; the record of
\* the first page is in the output and the cursor is the link to page two
C12_Witness ==
    /\ pc = "STOPPED"
    /\ page_count = 2
    /\ last_response.k = "response" /\ last_response.status = 500
    /\ requests = 2
    /\ all_contracts # <<>>
    /\ output_file = File(all_contracts)
    /\ cursor_file = File(next_url.v)

\* this step, a decoded page with releases went through the loop body
\* without an exception and reached the pagination step (lines 176-182)
PageProcessed ==
    /\ ResponseReceived
    /\ last_response'.status = 200
    /\ last_response'.json
    /\ ~last_response'.empty
    /\ end_reason' # "exception"

\* the parts of the cursor lifecycle other than when the file is written:
\* read once at startup; a processed page with a next link persists it
\* before the following request, which targets that link; a processed page
\* without a next link ends the run DONE
CursorReadAndFollowed ==
    /\ run' = run + 1 => cursor_reads' = 1
    /\ run' = run => cursor_reads' = cursor_reads
    /\ (PageProcessed /\ Truthy(last_response'.next))
          => /\ cursor_file' = File(last_response'.next.v)
             /\ pc' = "FETCHING"
    /\ (AttemptMade /\ page_count > 1)
          => /\ cursor_file = File(last_request'.url)
             /\ last_link = JChars(last_request'.url)
    /\ (PageProcessed /\ ~Truthy(last_response'.next)) => pc' = "DONE"

WriteFailed ==
    /\ ResponseReceived
    /\ last_response'.completed
    /\ ~last_response'.empty
    /\ Truthy(last_response'.next)
    /\ WriteRaises(last_response'.next)

DigitsOnly(s) == s # <<>> /\ \A i \in 1..Len(s) : s[i] \in DecimalDigits
AcceptedCode(s) ==
    DigitsOnly(s) /\ (StartsWith(s, <<"4", "5">>) \/ StartsWith(s, <<"7", "1">>))

\* C14 (as claimed): classification filter.  Every stored record has a code
\* of decimal digits only that starts with 45 or 71; a notice whose extracted code is UNKNOWN or
\* starts with neither prefix is not stored, whatever page arrives next;
\* "45210000-2" is stored as 452100002 and "98000000" is rejected.
C14_ClassificationFilter ==
    /\ \A i \in 1..Len(all_contracts) : AcceptedCode(all_contracts[i].cpv_code)
    /\ \A i \in 1..Len(RowsOf(output_file)) :
          AcceptedCode(RowsOf(output_file)[i].cpv_code)
    /\ \A l \in ReleaseLists : \A i \in 1..Len(l) :
          LET cpv == extract_cpv(TenderOf(l[i]), l[i]) IN
          /\ ~AcceptedCode(cpv) => ReleaseOutcome(l[i], seen_ocids) # "append"
          /\ ReleaseOutcome(l[i], seen_ocids) = "append"
                => ContractRecord(l[i]).cpv_code = cpv
    /\ normalize_cpv(JChars(<<"4", "5", "2", "1", "0", "0", "0", "0", "-", "2">>))
          = <<"4", "5", "2", "1", "0", "0", "0", "0", "2">>
    /\ ~AcceptedCode(normalize_cpv(JChars(<<"9", "8", "0", "0", "0", "0", "0", "0">>)))

\* C19: the output of a run is that run's records only.  The accumulator and
\* the dedup set start empty on every run; a run that ends with at least
\* one accepted record leaves exactly its own records in the output file,
\* and a run that accepted none leaves the file untouched.
C19_OutputIsThisRunOnly ==
    [][/\ run' = run + 1 => (all_contracts' = <<>> /\ seen_ocids' = {})
       /\ (pc = "FETCHING" /\ pc' \in Terminal)
             => IF all_contracts' # <<>>
                THEN output_file' = File(all_contracts')
                ELSE output_file' = output_file]_vars

\* C19 witness: the first run was interrupted after it had written records;
\* the run resumed from its cursor ended with records of its own, and a
\* record of the first run is no longer in the output
C19_Witness ==
    /\ run = 2
    /\ resumed
    /\ prev_run.state = "ABORTED"
    /\ pc \in Terminal
    /\ all_contracts # <<>>
    /\ output_file = File(all_contracts)
    /\ \E i \in 1..Len(RowsOf(start_output)) :
          ~\E j \in 1..Len(all_contracts) :
              all_contracts[j].ocid = RowsOf(start_output)[i].ocid

(***************************************************************************)
(* Properties of the canonicalizer                                         *)
(***************************************************************************)
MapRows == buyer_map.v
\* the cluster keys of the rows of the map from row i on, in row order
RECURSIVE RowKeys(_)
RowKeys(i) ==
    IF i > Len(MapRows) THEN <<>>
    ELSE <<ClusterKey(MapRows[i].buyer_name_raw)>> \o RowKeys(i + 1)
RowsOfKey(key) == {i \in 1..Len(MapRows) : ClusterKey(MapRows[i].buyer_name_raw) = key}
MapKeys == {ClusterKey(MapRows[i].buyer_name_raw) : i \in 1..Len(MapRows)}
HasAcronymForm(key) ==
    \E i \in RowsOfKey(key) : IsAcronymForm(MapRows[i].buyer_name_raw, key)

\* occurrences of a raw name in the input column, and its first position
InputCount(v) == Cardinality({i \in 1..Len(names) : names[i] = v})
FirstSeen(v) == CHOOSE i \in 1..Len(names) :
                   names[i] = v /\ \A j \in 1..(i - 1) : names[j] # v

\* the variant of a cluster that occurs most often in the input column,
\* ties broken by first-encountered order
MostFrequentInInput(key) ==
    LET vs == {MapRows[i].buyer_name_raw : i \in RowsOfKey(key)} IN
    CHOOSE v \in vs :
        \A w \in vs :
            \/ InputCount(w) < InputCount(v)
            \/ InputCount(w) = InputCount(v) /\ FirstSeen(v) <= FirstSeen(w)

\* C4 (as claimed): in a cluster without an acronym form the canonical name
\* is the raw variant that occurs most often in the input list, ties broken
\* by first-encountered order.
C4_FrequencyTieBreak ==
    buyer_map.k = "frame" =>
        \A i \in 1..Len(MapRows) :
            LET key == ClusterKey(MapRows[i].buyer_name_raw) IN
            ~HasAcronymForm(key) =>
                MapRows[i].buyer_name_canonical = MostFrequentInInput(key)

\* C7: the map is total and single-valued: its raw names are exactly the
\* distinct non-null input names, each in exactly one row; all rows of one
\* cluster carry the same canonical name, which is a variant of that
\* cluster; a second run on the same column returns the same frame.
C7_TotalSingleValued ==
    buyer_map.k = "frame" =>
        LET keys == RowKeys(1) IN
        /\ \A n \in 1..Len(names) :
              names[n].k # "nan" =>
                 Cardinality({i \in 1..Len(MapRows) :
                                 MapRows[i].buyer_name_raw = names[n]}) = 1
        /\ \A i \in 1..Len(MapRows) :
              /\ \E n \in 1..Len(names) : names[n] = MapRows[i].buyer_name_raw
              /\ MapRows[i].buyer_name_raw.k # "nan"
              /\ \E j \in 1..Len(MapRows) :
                    /\ MapRows[j].buyer_name_raw = MapRows[i].buyer_name_canonical
                    /\ keys[j] = keys[i]
        /\ \A i, j \in 1..Len(MapRows) :
              keys[i] = keys[j]
              => MapRows[i].buyer_name_canonical = MapRows[j].buyer_name_canonical
        /\ prev_map.k = "frame" => buyer_map = prev_map

\* C7 witness: a column with a null and a repeated name, mapped twice, gave
\* a single row for the one distinct name
C7_Witness ==
    /\ names = <<JChars(<<"A", "c", "m", "e", " ", "C", "o">>), NaN, JChars(<<"A", "c", "m", "e", " ", "C", "o">>)>>
    /\ prev_map.k = "frame"
    /\ buyer_map.k = "frame"
    /\ Len(MapRows) = 1

\* C8: in a cluster that contains a variant whose space-stripped upper-case
\* form equals the cluster key, the canonical name is such a variant.
C8_AcronymTieBreak ==
    buyer_map.k = "frame" =>
        LET keys == RowKeys(1) IN
        \A i \in 1..Len(MapRows) :
            (\E j \in 1..Len(MapRows) :
                /\ keys[j] = keys[i]
                /\ IsAcronymForm(MapRows[j].buyer_name_raw, keys[i]))
            => IsAcronymForm(MapRows[i].buyer_name_canonical, keys[i])

\* C8 witness: the full phrase occurs twice and "DfT" once; the key is DFT
\* and both rows take "DfT" as canonical name
C8_Witness ==
    /\ names = <<JChars(<<"D", "e", "p", "a", "r", "t", "m", "e", "n", "t", " ", "f", "o", "r", " ", "T", "r", "a", "n", "s", "p", "o", "r", "t">>),
                 JChars(<<"D", "e", "p", "a", "r", "t", "m", "e", "n", "t", " ", "f", "o", "r", " ", "T", "r", "a", "n", "s", "p", "o", "r", "t">>), JChars(<<"D", "f", "T">>)>>
    /\ buyer_map.k = "frame"
    /\ MapKeys = {<<"D", "F", "T">>}
    /\ \A i \in 1..Len(MapRows) :
          MapRows[i].buyer_name_canonical = JChars(<<"D", "f", "T">>)

(***************************************************************************)
(* Properties of the risk engine                                           *)
(***************************************************************************)
Statuses == {"CALCULATED", "SKIPPED_LOW_VALUE", "SKIPPED_NO_REF",
             "SKIPPED_INVALID_REF"}

\* a reference cell that is missing, non-numeric, zero or negative
UnusableRef(cell) ==
    \/ cell.k = "nan"
    \/ cell.k \in {"rat", "inf"} /\ Le(cell, Zero)
    \/ cell.k = "chars" /\ (\/ cell.v = <<>>
                            \/ ParseFloat(cell.v).k \in {"error", "nan"}
                            \/ Le(ParseFloat(cell.v), Zero))

\* C5 (as claimed): a contract that passed the spend gate and matched a
\* material whose price or carbon factor is missing, non-numeric, zero or
\* negative gets SKIPPED_INVALID_REF with the raw reference values retained.
C5_InvalidRefGate ==
    \A i \in 1..Len(results) :
        (/\ mats[i].k = "dict"
         /\ \/ UnusableRef(mats[i].v.composite_price_gbp_per_tonne)
            \/ UnusableRef(mats[i].v.carbon_factor_kgco2e_per_tonne))
        => /\ results[i].pqe_status = "SKIPPED_INVALID_REF"
           /\ results[i].ref_price = mats[i].v.composite_price_gbp_per_tonne
           /\ results[i].ref_factor = mats[i].v.carbon_factor_kgco2e_per_tonne

\* the keywords a row declares: none when the cell is empty
DeclaredKeywords(row) == IF row.keywords.k = "chars" THEN Keywords(row) ELSE {}
\* the generic sentinel row: material_id equal to MAT_GEN
Sentinel(row) == row.material_id.k = "chars" /\ row.material_id.v = MAT_GEN
\* rows that are not the sentinel and have a keyword inside the lowered text
Candidates(text, table) ==
    {i \in 1..Len(table) :
        /\ ~Sentinel(table[i])
        /\ \E k \in DeclaredKeywords(table[i]) : Contains(Lower(text), k)}
\* a row whose material_id is the sentinel in any letter case
SentinelAnyCase(row) ==
    row.material_id.k = "chars" /\ Upper(row.material_id.v) = MAT_GEN

\* C9 (as claimed): detect_material returns the first row in table order,
\* the sentinel row skipped, that has a keyword inside the lower-cased text;
\* without such a row it returns the sentinel row whenever the table holds
\* one, and the missing-match outcome only when the table holds none.
C9_DetectMaterial ==
    \A i \in 1..Len(mats) :
        mats[i].k # "nocall" =>
            LET text == FullText(contracts[i])
                cands == Candidates(text, materials)
                gens == {j \in 1..Len(materials) : Sentinel(materials[j])}
            IN  IF cands # {}
                THEN mats[i] = Material(materials[CHOOSE j \in cands :
                                                     \A l \in cands : j <= l])
                ELSE IF gens # {}
                THEN mats[i].k = "dict" /\ Sentinel(mats[i].v)
                ELSE /\ mats[i] = NoMaterial
                     /\ ~\E j \in 1..Len(materials) : SentinelAnyCase(materials[j])

\* the derived risk fields of an output row
DerivedFields == {"detected_material_id", "detected_material_name",
                  "est_material_tonnes", "est_co2e_tonnes",
                  "co2e_range_low", "co2e_range_high", "risk_category"}
\* a cell of the output frame holds a value
IsSet(cell) == cell.k \notin {"absent", "nan"}

\* C10 (as claimed): the output holds exactly one record per input contract,
\* each with one of the four statuses, and the derived risk fields are set
\* if and only if the status is CALCULATED.
C10_OneRecordPerContract ==
    out_frame.k = "frame" =>
        /\ Len(out_frame.v) = Len(contracts)
        /\ \A c \in 1..Len(contracts) :
              Cardinality({i \in 1..Len(out_frame.v) :
                              out_frame.v[i].row = contracts[c]}) = 1
        /\ \A i \in 1..Len(out_frame.v) :
              /\ out_frame.v[i].pqe_status \in Statuses
              /\ \A f \in DerivedFields :
                    IsSet(out_frame.v[i][f])
                       <=> (out_frame.v[i].pqe_status = "CALCULATED")

\* the row of the output frame holds an estimated CO2e value
HasValue(r) == r.est_co2e_tonnes.k \in {"rat", "inf"}

\* C15: output ordering.  Rows with an estimated CO2e value are in
\* descending order of it, and no row with a value comes after a row with
\* a SKIPPED status.
C15_OutputOrdering ==
    out_frame.k = "frame" =>
        \A i, j \in 1..Len(out_frame.v) :
            i < j =>
                /\ (HasValue(out_frame.v[i]) /\ HasValue(out_frame.v[j]))
                      => Ge(out_frame.v[i].est_co2e_tonnes,
                            out_frame.v[j].est_co2e_tonnes)
                /\ out_frame.v[i].pqe_status # "CALCULATED"
                      => ~HasValue(out_frame.v[j])

\* C15 witness: the input held a skipped contract first, then one of 50
\* and one of 200 tonnes CO2e; the output holds them in the reverse order
C15_Witness ==
    /\ out_frame.k = "frame"
    /\ Len(out_frame.v) = 3
    /\ results[1].pqe_status = "SKIPPED_LOW_VALUE"
    /\ out_frame.v[1].est_co2e_tonnes = Rat(200, 1)
    /\ out_frame.v[2].est_co2e_tonnes = Rat(50, 1)
    /\ out_frame.v[3].pqe_status = "SKIPPED_LOW_VALUE"

\* the spend of an amount cell as the claim states it: the cell's text with
\* every character other than digits and "." removed, parsed as a number;
\* 0 when the cell is empty or the rest does not parse
ClaimedSpend(cell) ==
    IF cell.k = "nan" THEN Zero
    ELSE LET text == IF cell.k = "rat" THEN FloatText(cell) ELSE cell.v
             kept == SelectSeq(text, LAMBDA c : c \in DecimalDigits \cup {"."})
         IN  IF ParseDecimal(kept).k = "error" THEN Zero ELSE ParseDecimal(kept)

\* C16: spend gate.  The spend of a contract is its amount text stripped of
\* everything but digits and ".", parsed, or 0 when missing or unparsable;
\* below 5000 the contract is SKIPPED_LOW_VALUE with its input fields
\* unchanged and nothing added, whatever the reference table; at 5000 or
\* more it is never SKIPPED_LOW_VALUE; "4,999.50" with a currency mark
\* parses to 4999.50.
C16_SpendGate ==
    /\ \A i \in 1..Len(results) :
          LET spend == ClaimedSpend(contracts[i].value_amount) IN
          /\ clean_currency(contracts[i].value_amount) = spend
          /\ Lt(spend, Rat(5000, 1))
                => results[i] = [row |-> contracts[i],
                                 pqe_status |-> "SKIPPED_LOW_VALUE"] @@ Unset
          /\ Ge(spend, Rat(5000, 1))
                => results[i].pqe_status # "SKIPPED_LOW_VALUE"
    /\ clean_currency(JChars(<<"G", "B", "P", " ", "4", ",", "9", "9", "9", ".", "5", "0">>))
          = Rat(499950, 100)

\* C16 witness: "GBP 4,999.50" was skipped as low value, and the contract
\* of exactly 5000 after it was not
C16_Witness ==
    /\ Len(results) = 2
    /\ contracts[1].value_amount = JChars(<<"G", "B", "P", " ", "4", ",", "9", "9", "9", ".", "5", "0">>)
    /\ results[1].pqe_status = "SKIPPED_LOW_VALUE"
    /\ clean_currency(contracts[2].value_amount) = Rat(5000, 1)
    /\ results[2].pqe_status # "SKIPPED_LOW_VALUE"
    /\ materials # <<>>

\* x >= n for a computed float or an emitted number x
AtLeast(x, n) == IF x.k = "fin" THEN FGe(x, Rat(n, 1)) ELSE Ge(x, Rat(n, 1))

\* the tier of a CO2e amount by the fixed thresholds
ClaimedTier(x) ==
    IF AtLeast(x, 1000) THEN "CRITICAL"
    ELSE IF AtLeast(x, 250) /\ ~AtLeast(x, 1000) THEN "HIGH"
    ELSE IF AtLeast(x, 50) /\ ~AtLeast(x, 250) THEN "MEDIUM"
    ELSE "LOW"

\* C17: carbon computation.  For every CALCULATED record, with the spend of
\* the contract and the price and factor of the detected material, in float
\* arithmetic: tonnes = spend / price, co2e = tonnes * factor / 1000, the
\* range is 0.75 and 1.25 times co2e, the tier follows the thresholds on
\* co2e; the record carries these amounts rounded to two decimals.
C17_CarbonComputation ==
    \A i \in 1..Len(results) :
        results[i].pqe_status = "CALCULATED" =>
            LET spend == ClaimedSpend(contracts[i].value_amount)
                price == SafeFloat(mats[i].v.composite_price_gbp_per_tonne)
                factor == SafeFloat(mats[i].v.carbon_factor_kgco2e_per_tonne)
                tonnes == FDiv(ToFloat(spend), ToFloat(price))
                co2e == FDiv(FMul(tonnes, ToFloat(factor)), ToFloat(Rat(1000, 1)))
            IN  /\ results[i].applied_price_rate = price
                /\ results[i].applied_carbon_factor = factor
                /\ results[i].est_material_tonnes = Round2(tonnes)
                /\ results[i].est_co2e_tonnes = Round2(co2e)
                /\ results[i].co2e_range_low = Round2(FMul(ToFloat(Rat(3, 4)), co2e))
                /\ results[i].co2e_range_high = Round2(FMul(ToFloat(Rat(5, 4)), co2e))
                /\ results[i].risk_category = JStr(ClaimedTier(co2e))

\* C17 witness: spend 100000 at 50 per tonne and 100 kg CO2e per tonne gave
\* 2000 tonnes, 200 tonnes CO2e, MEDIUM, range 150 to 250
C17_Witness ==
    \E i \in 1..Len(results) :
        /\ results[i].pqe_status = "CALCULATED"
        /\ clean_currency(contracts[i].value_amount) = Rat(100000, 1)
        /\ results[i].applied_price_rate = Rat(50, 1)
        /\ results[i].applied_carbon_factor = Rat(100, 1)
        /\ results[i].est_material_tonnes = Rat(2000, 1)
        /\ results[i].est_co2e_tonnes = Rat(200, 1)
        /\ results[i].risk_category = JStr("MEDIUM")
        /\ results[i].co2e_range_low = Rat(150, 1)
        /\ results[i].co2e_range_high = Rat(250, 1)

\* C18 (as claimed): for every CALCULATED record the tier is the one the
\* thresholds give for the emitted, rounded est_co2e_tonnes, and the emitted
\* range encloses the emitted estimate.
C18_TierMatchesEmitted ==
    \A i \in 1..Len(results) :
        results[i].pqe_status = "CALCULATED" =>
            /\ results[i].risk_category
                  = JStr(ClaimedTier(results[i].est_co2e_tonnes))
            /\ Le(results[i].co2e_range_low, results[i].est_co2e_tonnes)
            /\ Le(results[i].est_co2e_tonnes, results[i].co2e_range_high)

====
